---- MODULE Spec2Model ----
(***************************************************************************)
(* ChirpChat backend: the connection / presence / broadcast core.          *)
(*                                                                         *)
(*   app/websocket/manager.py   WebSocketConnectionManager                 *)
(*   app/routers/ws.py          websocket_endpoint and its event handlers  *)
(*   app/chat/routes.py         send_message_http                          *)
(*   app/routers/events.py      sse_event_generator, sync_events           *)
(*                                                                         *)
(* Every server process owns one WebSocketConnectionManager (the module    *)
(* global `manager`) and the module globals of ws.py; the users table, the *)
(* messages table and Redis are shared by all processes.  A coroutine runs *)
(* without interruption between two awaits, so an action of the model is   *)
(* the code between two suspension points of one task.                     *)
(***************************************************************************)
EXTENDS Integers, Sequences, FiniteSets, TLC

Users == {"u1", "u2", "u3"}
Procs == {"P", "Q"}
Chats == {"c1", "c2"}

\* further chats, as many as the participant cache holds; each has u3 alone
OtherChats == <<
    "f001", "f002", "f003", "f004", "f005", "f006", "f007", "f008", "f009", "f010",
    "f011", "f012", "f013", "f014", "f015", "f016", "f017", "f018", "f019", "f020",
    "f021", "f022", "f023", "f024", "f025", "f026", "f027", "f028", "f029", "f030",
    "f031", "f032", "f033", "f034", "f035", "f036", "f037", "f038", "f039", "f040",
    "f041", "f042", "f043", "f044", "f045", "f046", "f047", "f048", "f049", "f050",
    "f051", "f052", "f053", "f054", "f055", "f056", "f057", "f058", "f059", "f060",
    "f061", "f062", "f063", "f064", "f065", "f066", "f067", "f068", "f069", "f070",
    "f071", "f072", "f073", "f074", "f075", "f076", "f077", "f078", "f079", "f080",
    "f081", "f082", "f083", "f084", "f085", "f086", "f087", "f088", "f089", "f090",
    "f091", "f092", "f093", "f094", "f095", "f096", "f097", "f098", "f099", "f100" >>

\* rows of the chat_participants table: u1 and u2 share chat c1, c2 has no rows
chat_participants ==
    [ch \in Chats \cup {OtherChats[k] : k \in 1..Len(OtherChats)} |->
        IF ch = "c1" THEN <<"u1", "u2">> ELSE IF ch = "c2" THEN <<>> ELSE <<"u3">>]

TempIds == {"t1", "t2"}

\* "no entry" of a dict keyed by user id
None == 0
\* no process: nobody has written the record yet
NoProc == "none"

\* ws.py and manager.py module constants
MAX_MESSAGES_PER_WINDOW == 20
MESSAGE_WINDOW_SECONDS == 60
MAX_REACTIONS_PER_WINDOW == 15
REACTION_WINDOW_SECONDS == 10
THROTTLE_LAST_SEEN_UPDATE_SECONDS == 120
CACHE_MAX_SIZE == 100
CACHE_TTL_SECONDS == 60

---------------------------------------------------------------------------
\* Bounds of the model
MaxConns == 4        \* websocket connections opened in one behaviour
MaxTasks == 3        \* grace timer tasks created in one behaviour
MaxChatConns == 4    \* websocket connections of the chat scenarios
MaxEvents == 2       \* inbound frames and requests handled in a chat scenario
TickSeconds == 60    \* the step of the clock
MaxTime == 60        \* the clock stops here
SentBefore == 19     \* messages the user of the rate scenario has already sent
MaxRateEvents == 3   \* inbound frames and requests handled in the rate scenario
MaxSeq == 3          \* envelopes published in one behaviour
LogKeep == 2         \* entries the trimmed event log retains
MaxPings == 1        \* keep-alive pings of one SSE stream
MaxTwoConns == 3     \* websocket connections opened in the two-process scenario
MaxTwoTasks == 2     \* grace timer tasks created in the two-process scenario
MaxSetupConns == 3   \* websocket connections opened in the setup-failure scenario
MaxSetupTasks == 2   \* grace timer tasks created in the setup-failure scenario
ReactedBefore == 15  \* reactions u1 has toggled in the window when the reaction scenario starts
MaxReactEvents == 3  \* inbound frames taken up in the reaction scenario
CacheTickSeconds == 30  \* the step of the clock in the cache scenario
MaxCacheTime == 90      \* the clock of the cache scenario stops here
MaxLookups == 3         \* calls of _get_chat_participants in the cache scenario
MaxCalls == 3            \* calls of _get_chat_participants in the lookup scenario
MaxReadErrors == 1       \* read errors one SSE generator meets
MaxCloseEvents == 2      \* inbound frames taken up in the two-device scenario

---------------------------------------------------------------------------
VARIABLES
    conns,                  \* the websocket_endpoint tasks, by connection id
    tasks,                  \* the _perform_offline_cleanup tasks, by task id
    active_connections,     \* manager.active_connections of each process
    pending_offline_tasks,  \* manager.pending_offline_tasks of each process
    users_is_online,        \* users.is_online in the shared store
    online_written_by,      \* per user: the process whose connect last wrote is_online=true
    presence_broadcasts,    \* per process and user: offline presence broadcasts
                            \* made since the user's last connect or disconnect
    outbox,                 \* events sent on each websocket, in order
    now,                    \* datetime.now(timezone.utc), in seconds
    user_message_timestamps,\* ws.user_message_timestamps of each process (a dict)
    messages,               \* the messages table of the shared store, in insert order
    participant_cache,      \* manager.participant_cache of each process (an OrderedDict)
    inbound,                \* the frames each websocket handler has taken up, in order
    budget,                 \* inbound frames and requests still to come
    user_reaction_timestamps,\* ws.user_reaction_timestamps of each process (a dict)
    reactions,              \* messages.reactions of the shared store, for one emoji:
                            \* the pairs <<message id, user id>>
    lookup,                 \* the last call of _get_chat_participants made on its own:
                            \* its arguments and what it returned
    published,              \* the ids of the messages SendPublish handed to
                            \* broadcast_chat_message, in the order of the calls
    pending_lookups,        \* the calls of _get_chat_participants that LookupBegin made
    cache_uses,             \* per process: the chat ids those calls found in the cache
                            \* or stored in it, in order
    user_last_activity_update_db, \* ws.user_last_activity_update_db of each process
    last_seen_writes,       \* the updates of users.last_seen the store has applied:
                            \* user and value, in order
    sequence_counter,       \* the shared counter the sequencer increments
    event_log,              \* the sorted set EVENT_LOG_KEY: (score, member), by score
    channel,                \* everything published on BROADCAST_CHANNEL, in order
    publishers,             \* the publish call each process is in
    sse,                    \* the sse_event_generator of each user
    sync_response           \* the last response of GET /events/sync

lifecycleVars == <<tasks, active_connections, pending_offline_tasks, users_is_online,
                   online_written_by, presence_broadcasts>>
chatVars == <<now, user_message_timestamps, messages, participant_cache, inbound, budget>>
reactVars == <<user_reaction_timestamps, reactions>>
logVars == <<sequence_counter, event_log, channel, publishers, sse, sync_response>>
seenVars == <<user_last_activity_update_db, last_seen_writes>>
lruVars == <<pending_lookups, cache_uses>>
vars == <<conns, outbox, lifecycleVars, chatVars, reactVars, lookup, published, lruVars, seenVars,
          logVars>>

NoCall == [pc |-> "idle", proc |-> "P", chat_id |-> "c1", at |-> 0, participant_ids |-> <<>>]
NoLookup == [proc |-> NoProc, chat_id |-> "c1", participant_ids |-> <<>>, hit |-> FALSE,
             raised |-> FALSE]
NoReq == [chat_id |-> "c1", client_temp_id |-> "t1", at |-> 0, ok |-> FALSE, id |-> 0,
          found |-> FALSE, reactions |-> {}]
FreeConn == [user |-> "u1", proc |-> "P", pc |-> "free", alive |-> FALSE, ran |-> FALSE,
             req |-> NoReq, latest |-> FALSE]
FreeTask == [user |-> "u1", proc |-> "P", pc |-> "free", cancel_requested |-> FALSE,
             ran |-> FALSE, absorbed |-> FALSE, elsewhere |-> FALSE, wrote |-> FALSE,
             broadcast |-> FALSE]

ConnIds == DOMAIN conns
TaskIds == DOMAIN tasks

\* uuid4 / create_task hand out fresh identities: the lowest unused one
FirstFree(f) == CHOOSE i \in DOMAIN f : f[i].pc = "free" /\ \A j \in DOMAIN f : j < i => f[j].pc # "free"
HasFree(f) == \E i \in DOMAIN f : f[i].pc = "free"

\* asyncio.Task.done(): the coroutine returned, or the task was cancelled before it ran
done(t) == tasks[t].pc \in {"done", "cancelled"}
\* asyncio.Task.cancelled(): only a task whose CancelledError was not caught;
\* _perform_offline_cleanup catches it, so only a task cancelled before its first step
cancelled(t) == tasks[t].pc = "cancelled"

RECURSIVE SeqToSet(_)
SeqToSet(s) == IF s = <<>> THEN {} ELSE {Head(s)} \cup SeqToSet(Tail(s))

\* list(set([... if UUID(row["user_id"]) != user_id])) over the chats of user_id
_get_all_chat_partners_for_user(u) ==
    {v \in Users : v # u /\ \E ch \in Chats :
        u \in SeqToSet(chat_participants[ch]) /\ v \in SeqToSet(chat_participants[ch])}

\* a fan-out that gives up, sending nothing, when one registered handle is dead
broadcast_to_users_or_fail(ob, p, payload, user_ids) ==
    IF \E u \in user_ids : /\ active_connections[p][u] # None
                            /\ ~conns[active_connections[p][u]].alive
    THEN ob
    ELSE [c \in DOMAIN ob |->
            IF \E u \in user_ids : active_connections[p][u] = c
            THEN Append(ob[c], payload) ELSE ob[c]]

\* websocket.send_json on the handle registered for each target that is in
\* active_connections of process p; a send on a dead handle raises and
\* asyncio.gather(return_exceptions=True) keeps the exception
broadcast_to_users(ob, p, payload, user_ids) ==
    [c \in DOMAIN ob |->
        IF /\ \E u \in user_ids : active_connections[p][u] = c
           /\ conns[c].alive
        THEN Append(ob[c], payload) ELSE ob[c]]

presence_payload(u, online) ==
    [event_type |-> "user_presence_update", user_id |-> u, is_online |-> online]

-------------------------------------------------------------------------------------------------------------------------------------------------
(* The asyncio event loop of a process runs its ready callbacks in FIFO     *)
(* order.  Task.cancel() only makes the cancelled task ready: until it has  *)
(* run, the callbacks that were ready before it may each run one step, and  *)
(* what they then await completes after it.  `ran` marks the tasks that     *)
(* have had that step.                                                     *)
CancelPending(p) == \E t \in TaskIds : tasks[t].proc = p /\ tasks[t].cancel_requested

---------------------------------------------------------------------------
(* Connection lifecycle: ws.py websocket_endpoint, manager.connect,        *)
(* manager.schedule_graceful_disconnect, manager._perform_offline_cleanup  *)

\* websocket_endpoint for an authenticated user up to the first suspension of
\* manager.connect: a pending offline task of the user on this process is popped
\* and, unless done, cancelled; then await websocket.accept()
ConnectBegin(c, u, p) ==
    /\ HasFree(conns) /\ c = FirstFree(conns)
    /\ LET t == pending_offline_tasks[p][u]
           cancels == t # None /\ ~done(t)
       IN /\ conns' = [conns EXCEPT ![c] = [FreeConn EXCEPT !.user = u, !.proc = p,
                                               !.pc = "accepting", !.alive = TRUE,
                                               !.ran = cancels \/ CancelPending(p)]]
          /\ pending_offline_tasks' = [pending_offline_tasks EXCEPT ![p][u] = None]
          /\ tasks' = [i \in TaskIds |->
                IF tasks[i].user = u /\ tasks[i].proc = p
                THEN [tasks[i] EXCEPT
                        !.cancel_requested = @ \/ (i = t /\ cancels),
                        \* the user connects again while this grace period runs
                        !.absorbed = @ \/ (tasks[i].pc \in {"created", "sleeping"})]
                ELSE IF tasks[i].user = u
                \* the user connects to another process while this grace period runs
                THEN [tasks[i] EXCEPT !.elsewhere = @ \/ (tasks[i].pc \in {"created", "sleeping"})]
                ELSE tasks[i]]
    /\ presence_broadcasts' = [presence_broadcasts EXCEPT ![p][u] = 0]
    /\ UNCHANGED <<logVars, seenVars, lookup, published, lruVars, reactVars, active_connections, users_is_online, online_written_by, outbox, chatVars>>

\* accept() returned: the handle is registered under the user id
ConnectRegister(c) ==
    /\ conns[c].pc = "accepting" /\ ~conns[c].ran
    /\ active_connections' = [active_connections EXCEPT ![conns[c].proc][conns[c].user] = c]
    \* (latest: this is now the connection of the user registered last on the process)
    /\ conns' = [d \in ConnIds |->
            IF d = c THEN [conns[c] EXCEPT !.pc = "registered", !.latest = TRUE,
                                           !.ran = CancelPending(conns[c].proc)]
            ELSE IF conns[d].user = conns[c].user /\ conns[d].proc = conns[c].proc
            THEN [conns[d] EXCEPT !.latest = FALSE]
            ELSE conns[d]]
    /\ UNCHANGED <<logVars, seenVars, lookup, published, lruVars, reactVars, tasks, pending_offline_tasks, users_is_online, online_written_by, presence_broadcasts, outbox, chatVars>>

\* a connect whose users.update is left out
ConnectOnlineUnwritten(c) ==
    /\ conns[c].pc = "registered" /\ ~conns[c].ran
    /\ conns' = [conns EXCEPT ![c].pc = "onlined", ![c].ran = CancelPending(conns[c].proc)]
    /\ UNCHANGED <<logVars, seenVars, lookup, published, lruVars, reactVars, tasks, active_connections,
                   pending_offline_tasks, users_is_online, online_written_by,
                   presence_broadcasts, outbox, chatVars>>

\* users.update({"is_online": True, "last_seen": now})
ConnectOnline(c) ==
    /\ conns[c].pc = "registered" /\ ~conns[c].ran
    /\ users_is_online' = [users_is_online EXCEPT ![conns[c].user] = TRUE]
    /\ online_written_by' = [online_written_by EXCEPT ![conns[c].user] = conns[c].proc]
    /\ conns' = [conns EXCEPT ![c].pc = "onlined", ![c].ran = CancelPending(conns[c].proc)]
    /\ UNCHANGED <<logVars, seenVars, lookup, published, lruVars, reactVars, tasks, active_connections, pending_offline_tasks, presence_broadcasts, outbox, chatVars>>

\* broadcast_presence_update_to_relevant_users(user_id, True, ...); then the
\* handler enters its receive loop
ConnectBroadcast(c) ==
    /\ conns[c].pc = "onlined" /\ ~conns[c].ran
    /\ outbox' = broadcast_to_users(outbox, conns[c].proc,
                                    presence_payload(conns[c].user, TRUE),
                                    _get_all_chat_partners_for_user(conns[c].user))
    /\ conns' = [conns EXCEPT ![c].pc = "open", ![c].ran = CancelPending(conns[c].proc)]
    /\ UNCHANGED <<logVars, seenVars, lookup, published, lruVars, reactVars, tasks, active_connections, pending_offline_tasks, users_is_online, online_written_by, presence_broadcasts, chatVars>>

\* manager.connect raises at one of its awaits (accept, users.update, the mood
\* select): ws.py lines 129-135 close the socket and return; the finally block of
\* the receive loop is never entered.  A users.update that failed may have been
\* applied.
ConnectFail(c) ==
    /\ conns[c].pc \in {"accepting", "registered", "onlined"} /\ ~conns[c].ran
    /\ \E applied \in (IF conns[c].pc = "registered" THEN BOOLEAN ELSE {FALSE}) :
          /\ users_is_online' = IF applied
                                THEN [users_is_online EXCEPT ![conns[c].user] = TRUE]
                                ELSE users_is_online
          /\ online_written_by' = IF applied
                                  THEN [online_written_by EXCEPT ![conns[c].user] = conns[c].proc]
                                  ELSE online_written_by
    /\ conns' = [conns EXCEPT ![c].pc = "closed", ![c].alive = FALSE,
                              ![c].ran = CancelPending(conns[c].proc)]
    /\ UNCHANGED <<logVars, seenVars, lookup, published, lruVars, reactVars, tasks, active_connections, pending_offline_tasks, presence_broadcasts,
                   outbox, chatVars>>

\* manager.schedule_graceful_disconnect(user_id): nothing when the user has a
\* pending task that is not done; else the user is removed from active_connections
\* (whichever handle is registered) and a new task is created and recorded
schedule_graceful_disconnect(u, p) ==
    LET t == pending_offline_tasks[p][u] IN
    IF t # None /\ ~done(t)
    THEN UNCHANGED <<active_connections, tasks, pending_offline_tasks>>
    ELSE /\ HasFree(tasks)
         /\ active_connections' = [active_connections EXCEPT ![p][u] = None]
         /\ tasks' = [tasks EXCEPT ![FirstFree(tasks)] =
                         [FreeTask EXCEPT !.user = u, !.proc = p, !.pc = "created",
                                          !.ran = CancelPending(p)]]
         /\ pending_offline_tasks' = [pending_offline_tasks EXCEPT ![p][u] = FirstFree(tasks)]

\* receive_text raises WebSocketDisconnect in the receive loop: the finally block
Disconnect(c) ==
    /\ conns[c].pc = "open" /\ ~conns[c].ran
    /\ schedule_graceful_disconnect(conns[c].user, conns[c].proc)
    /\ conns' = [conns EXCEPT ![c].pc = "closed", ![c].alive = FALSE]
    /\ presence_broadcasts' = [presence_broadcasts EXCEPT ![conns[c].proc][conns[c].user] = 0]
    \* del user_message_timestamps[user_id], when the user has an entry
    /\ user_message_timestamps' = [user_message_timestamps EXCEPT ![conns[c].proc] =
            [u \in DOMAIN @ \ {conns[c].user} |-> @[u]]]
    \* del user_reaction_timestamps[user_id], when the user has an entry
    /\ user_reaction_timestamps' = [user_reaction_timestamps EXCEPT ![conns[c].proc] =
            [u \in DOMAIN @ \ {conns[c].user} |-> @[u]]]
    /\ UNCHANGED <<logVars, seenVars, lookup, published, lruVars, reactions, users_is_online, online_written_by, outbox, now, messages, participant_cache, inbound, budget>>

\* the tokens get_user_from_token_for_ws turns down: none given, one that does not
\* decode, an expired one of u1, and a good one that names a user the store does
\* not have
NoUser == "nobody"
BadTokens == {[kind |-> "missing", user |-> NoUser], [kind |-> "invalid", user |-> NoUser],
              [kind |-> "expired", user |-> "u1"], [kind |-> "valid", user |-> "u9"]}

\* get_user_from_token_for_ws (lines 47-109): the user, or NoUser for None
get_user_from_token_for_ws(token) ==
    IF token.kind = "valid" /\ token.user \in Users THEN token.user ELSE NoUser

\* a handler whose return for a turned-down token runs the finally block of the
\* receive loop for the user the token names
ConnectUnauthenticatedCleansUp(c, p, token) ==
    /\ HasFree(conns) /\ c = FirstFree(conns)
    /\ get_user_from_token_for_ws(token) = NoUser
    /\ conns' = [conns EXCEPT ![c] = [FreeConn EXCEPT !.proc = p, !.pc = "rejected"]]
    /\ IF token.user \in Users
       THEN /\ schedule_graceful_disconnect(token.user, p)
            /\ UNCHANGED <<users_is_online, online_written_by, presence_broadcasts>>
       ELSE UNCHANGED lifecycleVars
    /\ UNCHANGED <<logVars, seenVars, lookup, published, lruVars, reactVars, outbox, chatVars>>

\* websocket_endpoint for a token that yields no user (lines 112-120): the
\* websocket is accepted, closed with code 1008, and the handler returns before
\* its try block
ConnectUnauthenticated(c, p, token) ==
    /\ HasFree(conns) /\ c = FirstFree(conns)
    /\ get_user_from_token_for_ws(token) = NoUser
    /\ conns' = [conns EXCEPT ![c] = [FreeConn EXCEPT !.proc = p, !.pc = "rejected"]]
    /\ UNCHANGED <<logVars, seenVars, lookup, published, lruVars, reactVars, lifecycleVars, outbox, chatVars>>

\* the finally block of _perform_offline_cleanup: whatever entry the user has
\* in pending_offline_tasks is deleted
cleanup_finally(pot, t) == [pot EXCEPT ![tasks[t].proc][tasks[t].user] = None]

\* first step of the task: runs to asyncio.sleep(GRACEFUL_DISCONNECT_SECONDS)
TaskStart(t) ==
    /\ tasks[t].pc = "created" /\ ~tasks[t].cancel_requested /\ ~tasks[t].ran
    /\ tasks' = [tasks EXCEPT ![t].pc = "sleeping", ![t].ran = CancelPending(tasks[t].proc)]
    /\ UNCHANGED <<logVars, seenVars, lookup, published, lruVars, reactVars, conns, active_connections, pending_offline_tasks, users_is_online, online_written_by,
                   presence_broadcasts, outbox, chatVars>>

\* the sleep is over: the check of lines 74-78, then either return (through the
\* finally block) or go on to the users.update call
TaskWake(t) ==
    /\ tasks[t].pc = "sleeping" /\ ~tasks[t].cancel_requested /\ ~tasks[t].ran
    /\ LET e == pending_offline_tasks[tasks[t].proc][tasks[t].user] IN
         IF e = None \/ cancelled(e)
         THEN /\ tasks' = [tasks EXCEPT ![t].pc = "done"]
              /\ pending_offline_tasks' = cleanup_finally(pending_offline_tasks, t)
         ELSE /\ tasks' = [tasks EXCEPT ![t].pc = "updating",
                                        ![t].ran = CancelPending(tasks[t].proc)]
              /\ UNCHANGED pending_offline_tasks
    /\ UNCHANGED <<logVars, seenVars, lookup, published, lruVars, reactVars, conns, active_connections, users_is_online, online_written_by, presence_broadcasts, outbox, chatVars>>

\* users.update({"is_online": False, "last_seen": offline_now}) returned
TaskUpdate(t) ==
    /\ tasks[t].pc = "updating" /\ ~tasks[t].cancel_requested /\ ~tasks[t].ran
    /\ users_is_online' = [users_is_online EXCEPT ![tasks[t].user] = FALSE]
    /\ tasks' = [tasks EXCEPT ![t].pc = "broadcasting", ![t].wrote = TRUE,
                              ![t].ran = CancelPending(tasks[t].proc)]
    /\ UNCHANGED <<logVars, seenVars, lookup, published, lruVars, reactVars, online_written_by, conns, active_connections, pending_offline_tasks, presence_broadcasts, outbox, chatVars>>

\* broadcast_presence_update_to_relevant_users(user_id, False, ...), then finally
TaskBroadcast(t) ==
    /\ tasks[t].pc = "broadcasting" /\ ~tasks[t].cancel_requested /\ ~tasks[t].ran
    /\ outbox' = broadcast_to_users(outbox, tasks[t].proc,
                                    presence_payload(tasks[t].user, FALSE),
                                    _get_all_chat_partners_for_user(tasks[t].user))
    /\ presence_broadcasts' = [presence_broadcasts EXCEPT ![tasks[t].proc][tasks[t].user] = @ + 1]
    /\ tasks' = [tasks EXCEPT ![t].pc = "done", ![t].broadcast = TRUE]
    /\ pending_offline_tasks' = cleanup_finally(pending_offline_tasks, t)
    /\ UNCHANGED <<logVars, seenVars, lookup, published, lruVars, reactVars, conns, active_connections, users_is_online, online_written_by, chatVars>>

\* the requested cancellation reaches the task.  Before its first step the
\* coroutine never runs; later the CancelledError is raised at the await the task
\* is suspended in, caught by `except asyncio.CancelledError`, and the finally
\* block runs.  A users.update request already sent may still be applied.
TaskCancelled(t) ==
    /\ tasks[t].cancel_requested
    /\ tasks[t].pc \in {"created", "sleeping", "updating", "broadcasting"}
    /\ LET p == tasks[t].proc
           last == \A i \in TaskIds \ {t} : ~(tasks[i].proc = p /\ tasks[i].cancel_requested)
           \* the loop has come to the cancelled task: what ran before it may run again
           rest(f) == [i \in DOMAIN f |->
                         IF last /\ f[i].proc = p THEN [f[i] EXCEPT !.ran = FALSE] ELSE f[i]]
       IN /\ conns' = rest(conns)
          /\ IF tasks[t].pc = "created"
             THEN /\ tasks' = rest([tasks EXCEPT ![t].pc = "cancelled",
                                                 ![t].cancel_requested = FALSE])
                  /\ UNCHANGED <<pending_offline_tasks, users_is_online>>
             ELSE /\ pending_offline_tasks' = cleanup_finally(pending_offline_tasks, t)
                  /\ \E applied \in (IF tasks[t].pc = "updating" THEN BOOLEAN ELSE {FALSE}) :
                       /\ users_is_online' = IF applied
                                             THEN [users_is_online EXCEPT ![tasks[t].user] = FALSE]
                                             ELSE users_is_online
                       /\ tasks' = rest([tasks EXCEPT ![t].pc = "done",
                                                      ![t].cancel_requested = FALSE,
                                                      ![t].wrote = @ \/ applied])
    /\ UNCHANGED <<logVars, seenVars, lookup, published, lruVars, reactVars, online_written_by, active_connections, presence_broadcasts, outbox, chatVars>>

---------------------------------------------------------------------------
(* Chat events: ws.py send_message and typing branches, routes.py          *)
(* send_message_http, manager.broadcast_chat_message and                   *)
(* manager.broadcast_typing_indicator                                      *)

\* the position of chat_id in an OrderedDict kept as a sequence, 0 when absent
CacheIndex(cache, chat_id) ==
    IF \E i \in 1..Len(cache) : cache[i].chat_id = chat_id
    THEN CHOOSE i \in 1..Len(cache) : cache[i].chat_id = chat_id
    ELSE 0

CacheDel(cache, i) == [j \in 1..(Len(cache) - 1) |-> IF j < i THEN cache[j] ELSE cache[j + 1]]

\* OrderedDict.__setitem__: a present key keeps its place, a new key goes last
CacheSet(cache, e) ==
    LET i == CacheIndex(cache, e.chat_id) IN
    IF i = 0 THEN Append(cache, e) ELSE [cache EXCEPT ![i] = e]

\* a lookup that serves an entry of any age
_get_chat_participants_any_age(cache, chat_id, t) ==
    LET i == CacheIndex(cache, chat_id)
        rows == chat_participants[chat_id]
    IN IF i # 0
       THEN [participant_ids |-> cache[i].participant_ids,
             cache |-> Append(CacheDel(cache, i), cache[i]), hit |-> TRUE]
       ELSE [participant_ids |-> rows,
             cache |-> CacheSet(IF Len(cache) >= CACHE_MAX_SIZE THEN Tail(cache) ELSE cache,
                                [chat_id |-> chat_id, cached_time |-> t,
                                 participant_ids |-> rows]), hit |-> FALSE]

\* manager._get_chat_participants at time t: the list returned and the cache left
_get_chat_participants(cache, chat_id, t) ==
    LET i == CacheIndex(cache, chat_id)
        hit == i # 0 /\ t - cache[i].cached_time < CACHE_TTL_SECONDS
        kept == IF i # 0 THEN CacheDel(cache, i) ELSE cache
        rows == chat_participants[chat_id]
    IN IF hit
       THEN [participant_ids |-> cache[i].participant_ids,
             cache |-> Append(CacheDel(cache, i), cache[i]), hit |-> TRUE]
       ELSE IF rows = <<>>
       THEN [participant_ids |-> <<>>,
             cache |-> CacheSet(kept, [chat_id |-> chat_id, cached_time |-> t,
                                       participant_ids |-> <<>>]), hit |-> FALSE]
       ELSE [participant_ids |-> rows,
             cache |-> CacheSet(IF Len(kept) >= CACHE_MAX_SIZE THEN Tail(kept) ELSE kept,
                                [chat_id |-> chat_id, cached_time |-> t,
                                 participant_ids |-> rows]), hit |-> FALSE]

\* a failed lookup that caches the empty list it returns
_get_chat_participants_raises_cached(cache, chat_id, t) ==
    LET i == CacheIndex(cache, chat_id)
        hit == i # 0 /\ t - cache[i].cached_time < CACHE_TTL_SECONDS
        kept == IF i # 0 THEN CacheDel(cache, i) ELSE cache
    IN IF hit
       THEN [participant_ids |-> cache[i].participant_ids,
             cache |-> Append(CacheDel(cache, i), cache[i]), hit |-> TRUE]
       ELSE [participant_ids |-> <<>>,
             cache |-> CacheSet(kept, [chat_id |-> chat_id, cached_time |-> t,
                                       participant_ids |-> <<>>]), hit |-> FALSE]

\* the same call when the select of line 145 raises: the handler of lines 159-161
\* returns an empty list
_get_chat_participants_raises(cache, chat_id, t) ==
    LET i == CacheIndex(cache, chat_id)
        hit == i # 0 /\ t - cache[i].cached_time < CACHE_TTL_SECONDS
        kept == IF i # 0 THEN CacheDel(cache, i) ELSE cache
    IN IF hit
       THEN [participant_ids |-> cache[i].participant_ids,
             cache |-> Append(CacheDel(cache, i), cache[i]), hit |-> TRUE]
       ELSE [participant_ids |-> <<>>, cache |-> kept, hit |-> FALSE]

new_message_payload(m) == [event_type |-> "new_message", message |-> m, chat_id |-> m.chat_id]

typing_payload(chat_id, u, is_typing) ==
    [event_type |-> "typing_indicator", chat_id |-> chat_id, user_id |-> u,
     is_typing |-> is_typing]

error_payload(detail) == [event_type |-> "error", detail |-> detail]

\* a send_json that drops the event
send_json_dropped(ob, c, payload) == ob

\* websocket.send_json on the handler's own socket
send_json(ob, c, payload) ==
    IF conns[c].alive THEN [ob EXCEPT ![c] = Append(@, payload)] ELSE ob

\* manager.broadcast_chat_message on process p: the outboxes left
broadcast_chat_message(ob, p, m, participant_ids) ==
    IF participant_ids = <<>> THEN ob
    ELSE broadcast_to_users(ob, p, new_message_payload(m), SeqToSet(participant_ids))

\* broadcast_typing_indicator without the filter of line 207
broadcast_typing_indicator_to_all(ob, p, chat_id, typing_user_id, is_typing, all_participant_ids) ==
    IF all_participant_ids = <<>> THEN ob
    ELSE broadcast_to_users(ob, p, typing_payload(chat_id, typing_user_id, is_typing),
                            SeqToSet(all_participant_ids))

\* manager.broadcast_typing_indicator on process p: the outboxes left
broadcast_typing_indicator(ob, p, chat_id, typing_user_id, is_typing, all_participant_ids) ==
    LET recipient_ids == SelectSeq(all_participant_ids, LAMBDA pid : pid # typing_user_id) IN
    IF all_participant_ids = <<>> \/ recipient_ids = <<>> THEN ob
    ELSE broadcast_to_users(ob, p, typing_payload(chat_id, typing_user_id, is_typing),
                            SeqToSet(recipient_ids))

\* the row a send_message stores
\* (via, proc: the connection and process that took it, 0 for an HTTP request)
message_row(id, chat_id, u, client_temp_id, t, c, p) ==
    [id |-> id, chat_id |-> chat_id, user_id |-> u, client_temp_id |-> client_temp_id,
     created_at |-> t, via |-> c, proc |-> p]

\* a send_message frame is taken up: the rate limit of lines 160-175, then the
\* participant query of line 177 is sent
SendBegin(c, chat_id, client_temp_id) ==
    /\ conns[c].pc = "open" /\ conns[c].alive /\ ~conns[c].ran /\ budget > 0
    /\ budget' = budget - 1
    /\ inbound' = [inbound EXCEPT ![c] = Append(@, [event_type |-> "send_message",
                        chat_id |-> chat_id, client_temp_id |-> client_temp_id])]
    /\ LET u == conns[c].user
           p == conns[c].proc
           old == IF u \in DOMAIN user_message_timestamps[p]
                  THEN user_message_timestamps[p][u] ELSE <<>>
           kept == SelectSeq(old, LAMBDA ts : now - ts < MESSAGE_WINDOW_SECONDS)
       IN /\ user_message_timestamps' = [user_message_timestamps EXCEPT ![p] =
                 [v \in DOMAIN @ \cup {u} |-> IF v = u THEN kept ELSE @[v]]]
          /\ IF Len(kept) >= MAX_MESSAGES_PER_WINDOW
             THEN /\ outbox' = send_json(outbox, c,
                        error_payload("You are sending messages too quickly. Please wait a moment."))
                  /\ conns' = [conns EXCEPT ![c].ran = CancelPending(p)]
             ELSE /\ outbox' = outbox
                  /\ conns' = [conns EXCEPT ![c].pc = "checking",
                                  ![c].ran = CancelPending(p),
                                  ![c].req = [NoReq EXCEPT !.chat_id = chat_id,
                                                 !.client_temp_id = client_temp_id,
                                                 !.at = now]]
    /\ UNCHANGED <<logVars, seenVars, lookup, published, lruVars, reactVars, lifecycleVars, now, messages, participant_cache>>

\* the participant query returned (lines 178-181); the row is built with a fresh
\* id and the insert of line 199 is sent, which the store applies or not
SendInsert(c) ==
    /\ conns[c].pc = "checking" /\ ~conns[c].ran
    /\ LET u == conns[c].user
           r == conns[c].req
           id == Len(messages) + 1
       IN IF u \notin SeqToSet(chat_participants[r.chat_id])
          THEN /\ outbox' = send_json(outbox, c,
                                error_payload("You are not a participant of this chat."))
               /\ conns' = [conns EXCEPT ![c].pc = "open", ![c].req = NoReq,
                                         ![c].ran = CancelPending(conns[c].proc)]
               /\ UNCHANGED messages
          ELSE \E ok \in BOOLEAN :
               /\ messages' = IF ok
                              THEN Append(messages, message_row(id, r.chat_id, u, r.client_temp_id,
                                                                now, c, conns[c].proc))
                              ELSE messages
               /\ conns' = [conns EXCEPT ![c].pc = "inserted", ![c].req.ok = ok,
                                         ![c].req.id = id,
                                         ![c].ran = CancelPending(conns[c].proc)]
               /\ UNCHANGED outbox
    /\ UNCHANGED <<logVars, seenVars, lookup, published, lruVars, reactVars, lifecycleVars, now, user_message_timestamps, participant_cache, inbound, budget>>

\* the insert returned (lines 201-210): the rate timestamp is appended, which
\* raises KeyError when the user's entry is gone, and the message is broadcast
SendFinish(c) ==
    /\ conns[c].pc = "inserted" /\ ~conns[c].ran
    /\ LET u == conns[c].user
           p == conns[c].proc
           r == conns[c].req
           got == _get_chat_participants(participant_cache[p], r.chat_id, now)
       IN IF ~r.ok
          THEN /\ outbox' = send_json(outbox, c,
                                error_payload("Failed to save your message to the database."))
               /\ UNCHANGED <<user_message_timestamps, participant_cache>>
          ELSE IF u \notin DOMAIN user_message_timestamps[p]
          THEN /\ outbox' = send_json(outbox, c, error_payload("Invalid payload for send_message"))
               /\ UNCHANGED <<user_message_timestamps, participant_cache>>
          ELSE /\ user_message_timestamps' =
                      [user_message_timestamps EXCEPT ![p][u] = Append(@, r.at)]
               /\ participant_cache' = [participant_cache EXCEPT ![p] = got.cache]
               /\ outbox' = broadcast_chat_message(outbox, p, messages[r.id],
                                                   got.participant_ids)
    /\ conns' = [conns EXCEPT ![c].pc = "open", ![c].req = NoReq,
                              ![c].ran = CancelPending(conns[c].proc)]
    /\ UNCHANGED <<logVars, seenVars, lookup, published, lruVars, reactVars, lifecycleVars, now, messages, inbound, budget>>

\* the insert returned a row, and the update of the chats table (line 208) raises:
\* the handler of line 332 answers, the broadcast of line 210 is not reached
SendFinishFault(c) ==
    /\ conns[c].pc = "inserted" /\ ~conns[c].ran
    /\ conns[c].req.ok
    /\ conns[c].user \in DOMAIN user_message_timestamps[conns[c].proc]
    /\ user_message_timestamps' =
           [user_message_timestamps EXCEPT ![conns[c].proc][conns[c].user] =
                                              Append(@, conns[c].req.at)]
    /\ outbox' = send_json(outbox, c, error_payload(
                     "A server error occurred while processing your request for send_message."))
    /\ conns' = [conns EXCEPT ![c].pc = "open", ![c].req = NoReq,
                              ![c].ran = CancelPending(conns[c].proc)]
    /\ UNCHANGED <<logVars, seenVars, lookup, published, lruVars, reactVars, lifecycleVars, now, messages, participant_cache,
                   inbound, budget>>

\* the rows the select of line 145 returned are cached (lines 147-156) under the
\* time t the call started at
CacheStore(cache, chat_id, t) ==
    LET rows == chat_participants[chat_id]
        e == [chat_id |-> chat_id, cached_time |-> t, participant_ids |-> rows]
    IN IF rows = <<>>
       THEN CacheSet(cache, e)
       ELSE CacheSet(IF Len(cache) >= CACHE_MAX_SIZE THEN Tail(cache) ELSE cache, e)

\* the insert returned a row (lines 201-210): the rate timestamp is appended and
\* broadcast_chat_message is called. A fresh cache entry is served and the event
\* sent at once (manager.py lines 133-138); otherwise an expired entry is deleted
\* and the call waits for the select of line 145
SendPublish(c) ==
    /\ conns[c].pc = "inserted" /\ ~conns[c].ran
    /\ conns[c].req.ok
    /\ conns[c].user \in DOMAIN user_message_timestamps[conns[c].proc]
    /\ LET u == conns[c].user
           p == conns[c].proc
           r == conns[c].req
           cache == participant_cache[p]
           i == CacheIndex(cache, r.chat_id)
           hit == i # 0 /\ now - cache[i].cached_time < CACHE_TTL_SECONDS
       IN /\ user_message_timestamps' =
                 [user_message_timestamps EXCEPT ![p][u] = Append(@, r.at)]
          /\ published' = Append(published, r.id)
          /\ IF hit
             THEN /\ participant_cache' =
                         [participant_cache EXCEPT ![p] = Append(CacheDel(cache, i), cache[i])]
                  /\ outbox' = broadcast_chat_message(outbox, p, messages[r.id],
                                                      cache[i].participant_ids)
                  /\ conns' = [conns EXCEPT ![c].pc = "open", ![c].req = NoReq,
                                            ![c].ran = CancelPending(p)]
             ELSE /\ participant_cache' =
                         [participant_cache EXCEPT ![p] = IF i # 0 THEN CacheDel(cache, i)
                                                                   ELSE cache]
                  /\ conns' = [conns EXCEPT ![c].pc = "publishing", ![c].req.at = now,
                                            ![c].ran = CancelPending(p)]
                  /\ UNCHANGED outbox
    /\ UNCHANGED <<logVars, seenVars, lookup, lruVars, reactVars, lifecycleVars, now, messages,
                   inbound, budget>>

\* the select of line 145 returned: the rows are cached and the event is sent to
\* the participants registered on the process (lines 147-157, 165-178)
SendDeliver(c) ==
    /\ conns[c].pc = "publishing" /\ ~conns[c].ran
    /\ LET p == conns[c].proc
           r == conns[c].req
       IN /\ participant_cache' =
                 [participant_cache EXCEPT ![p] = CacheStore(@, r.chat_id, r.at)]
          /\ outbox' = broadcast_chat_message(outbox, p, messages[r.id],
                                              chat_participants[r.chat_id])
          /\ conns' = [conns EXCEPT ![c].pc = "open", ![c].req = NoReq,
                                    ![c].ran = CancelPending(p)]
    /\ UNCHANGED <<logVars, seenVars, lookup, published, lruVars, reactVars, lifecycleVars, now,
                   user_message_timestamps, messages, inbound, budget>>

\* POST /chats/{chat_id}/messages by user u, served by process p
send_message_http(u, p, chat_id, client_temp_id) ==
    /\ budget > 0
    /\ budget' = budget - 1
    /\ IF u \notin SeqToSet(chat_participants[chat_id])
       THEN UNCHANGED <<messages, participant_cache, outbox>>
       ELSE \E ok \in BOOLEAN :
            LET m == message_row(Len(messages) + 1, chat_id, u, client_temp_id, now, 0, p)
                got == _get_chat_participants(participant_cache[p], chat_id, now)
            IN IF ~ok
               THEN UNCHANGED <<messages, participant_cache, outbox>>
               ELSE /\ messages' = Append(messages, m)
                    /\ participant_cache' = [participant_cache EXCEPT ![p] = got.cache]
                    /\ outbox' = broadcast_chat_message(outbox, p, m, got.participant_ids)
    /\ UNCHANGED <<logVars, seenVars, lookup, published, lruVars, reactVars, conns, lifecycleVars, now, user_message_timestamps, inbound>>

\* the insert returned a row and the store fails while broadcast_chat_message
\* looks up the participants (ws.py lines 206-210, manager.py lines 159-168)
SendFinishLookupFails(c) ==
    /\ conns[c].pc = "inserted" /\ ~conns[c].ran
    /\ conns[c].req.ok
    /\ conns[c].user \in DOMAIN user_message_timestamps[conns[c].proc]
    /\ LET u == conns[c].user
           p == conns[c].proc
           r == conns[c].req
           got == _get_chat_participants_raises(participant_cache[p], r.chat_id, now)
       IN /\ user_message_timestamps' =
                 [user_message_timestamps EXCEPT ![p][u] = Append(@, r.at)]
          /\ participant_cache' = [participant_cache EXCEPT ![p] = got.cache]
          /\ lookup' = [proc |-> p, chat_id |-> r.chat_id,
                        participant_ids |-> got.participant_ids, hit |-> got.hit,
                        raised |-> ~got.hit]
          /\ outbox' = broadcast_chat_message(outbox, p, messages[r.id], got.participant_ids)
    /\ conns' = [conns EXCEPT ![c].pc = "open", ![c].req = NoReq,
                              ![c].ran = CancelPending(conns[c].proc)]
    /\ UNCHANGED <<logVars, seenVars, published, lruVars, reactVars, lifecycleVars, now, messages,
                   inbound, budget>>

\* a start_typing or stop_typing frame (lines 293-298)
Typing(c, chat_id, is_typing) ==
    /\ conns[c].pc = "open" /\ conns[c].alive /\ ~conns[c].ran /\ budget > 0
    /\ budget' = budget - 1
    /\ inbound' = [inbound EXCEPT ![c] = Append(@, [event_type |-> "typing",
                        chat_id |-> chat_id, is_typing |-> is_typing])]
    /\ LET p == conns[c].proc
           got == _get_chat_participants(participant_cache[p], chat_id, now)
       IN /\ participant_cache' = [participant_cache EXCEPT ![p] = got.cache]
          /\ outbox' = broadcast_typing_indicator(outbox, p, chat_id, conns[c].user,
                                                  is_typing, got.participant_ids)
    /\ conns' = [conns EXCEPT ![c].ran = CancelPending(conns[c].proc)]
    /\ UNCHANGED <<logVars, seenVars, lookup, published, lruVars, reactVars, lifecycleVars, now, user_message_timestamps, messages>>

\* the users who reacted to message id, as the store has them
reactions_of(id) == {u \in Users : <<id, u>> \in reactions}

reaction_payload(chat_id, message_id, reactions_val) ==
    [event_type |-> "message_reaction_update", message_id |-> message_id,
     chat_id |-> chat_id, reactions |-> reactions_val]

\* manager.broadcast_reaction_update on process p: the outboxes left
broadcast_reaction_update(ob, p, chat_id, message_id, reactions_val, participant_ids) ==
    IF participant_ids = <<>> THEN ob
    ELSE broadcast_to_users(ob, p, reaction_payload(chat_id, message_id, reactions_val),
                            SeqToSet(participant_ids))

\* a toggle_reaction frame is taken up: the rate limit of lines 226-241, then the
\* participant query of line 247 is sent
ReactBegin(c, message_id, chat_id) ==
    /\ conns[c].pc = "open" /\ conns[c].alive /\ ~conns[c].ran /\ budget > 0
    /\ budget' = budget - 1
    /\ inbound' = [inbound EXCEPT ![c] = Append(@, [event_type |-> "toggle_reaction",
                        chat_id |-> chat_id, message_id |-> message_id])]
    /\ LET u == conns[c].user
           p == conns[c].proc
           old == IF u \in DOMAIN user_reaction_timestamps[p]
                  THEN user_reaction_timestamps[p][u] ELSE <<>>
           kept == SelectSeq(old, LAMBDA ts : now - ts < REACTION_WINDOW_SECONDS)
       IN /\ user_reaction_timestamps' = [user_reaction_timestamps EXCEPT ![p] =
                 [v \in DOMAIN @ \cup {u} |-> IF v = u THEN kept ELSE @[v]]]
          /\ IF Len(kept) >= MAX_REACTIONS_PER_WINDOW
             THEN /\ outbox' = send_json(outbox, c,
                        error_payload("You are reacting too quickly. Please wait a moment."))
                  /\ conns' = [conns EXCEPT ![c].ran = CancelPending(p)]
             ELSE /\ outbox' = outbox
                  /\ conns' = [conns EXCEPT ![c].pc = "reacting",
                                  ![c].ran = CancelPending(p),
                                  ![c].req = [NoReq EXCEPT !.chat_id = chat_id,
                                                 !.id = message_id, !.at = now]]
    /\ UNCHANGED <<logVars, seenVars, lookup, published, lruVars, lifecycleVars, now, user_message_timestamps, messages,
                   participant_cache, reactions>>

\* the participant query returned (lines 248-251); the select of line 253 is sent
\* and the store answers it
ReactFetch(c) ==
    /\ conns[c].pc = "reacting" /\ ~conns[c].ran
    /\ LET u == conns[c].user
           r == conns[c].req
       IN IF u \notin SeqToSet(chat_participants[r.chat_id])
          THEN /\ outbox' = send_json(outbox, c,
                                error_payload("You cannot react in a chat you are not part of."))
               /\ conns' = [conns EXCEPT ![c].pc = "open", ![c].req = NoReq,
                                         ![c].ran = CancelPending(conns[c].proc)]
          ELSE /\ conns' = [conns EXCEPT ![c].pc = "fetched",
                                         ![c].req.found = r.id \in 1..Len(messages),
                                         ![c].req.reactions = reactions_of(r.id),
                                         ![c].ran = CancelPending(conns[c].proc)]
               /\ UNCHANGED outbox
    /\ UNCHANGED <<logVars, seenVars, lookup, lifecycleVars, chatVars, published, lruVars, reactVars>>

\* the select returned (lines 254-277): the user is toggled in the reactions that
\* were read, and the update of line 279 is sent, which the store applies or not
ReactUpdate(c) ==
    /\ conns[c].pc = "fetched" /\ ~conns[c].ran
    /\ LET u == conns[c].user
           r == conns[c].req
           toggled == IF u \in r.reactions THEN r.reactions \ {u} ELSE r.reactions \cup {u}
       IN IF ~r.found
          THEN /\ outbox' = send_json(outbox, c, error_payload("Message not found."))
               /\ conns' = [conns EXCEPT ![c].pc = "open", ![c].req = NoReq,
                                         ![c].ran = CancelPending(conns[c].proc)]
               /\ UNCHANGED reactions
          ELSE IF messages[r.id].chat_id # r.chat_id
          THEN /\ outbox' = send_json(outbox, c,
                                error_payload("Message does not belong to the specified chat."))
               /\ conns' = [conns EXCEPT ![c].pc = "open", ![c].req = NoReq,
                                         ![c].ran = CancelPending(conns[c].proc)]
               /\ UNCHANGED reactions
          ELSE \E ok \in BOOLEAN :
               /\ reactions' = IF ok
                               THEN {e \in reactions : e[1] # r.id}
                                    \cup {<<r.id, v>> : v \in toggled}
                               ELSE reactions
               /\ conns' = [conns EXCEPT ![c].pc = "updated", ![c].req.ok = ok,
                                         ![c].req.reactions = toggled,
                                         ![c].ran = CancelPending(conns[c].proc)]
               /\ UNCHANGED outbox
    /\ UNCHANGED <<logVars, seenVars, lookup, published, lruVars, lifecycleVars, chatVars, user_reaction_timestamps>>

\* a handler that broadcasts the reactions it computed whatever the update returned
ReactFinishUnchecked(c) ==
    /\ conns[c].pc = "updated" /\ ~conns[c].ran
    /\ LET u == conns[c].user
           p == conns[c].proc
           r == conns[c].req
           got == _get_chat_participants(participant_cache[p], r.chat_id, now)
       IN IF u \notin DOMAIN user_reaction_timestamps[p]
          THEN /\ outbox' = send_json(outbox, c, error_payload("Invalid payload for toggle_reaction"))
               /\ UNCHANGED <<user_reaction_timestamps, participant_cache>>
          ELSE /\ user_reaction_timestamps' =
                      [user_reaction_timestamps EXCEPT ![p][u] = Append(@, r.at)]
               /\ participant_cache' = [participant_cache EXCEPT ![p] = got.cache]
               /\ outbox' = broadcast_reaction_update(outbox, p, r.chat_id, r.id, r.reactions,
                                                      got.participant_ids)
    /\ conns' = [conns EXCEPT ![c].pc = "open", ![c].req = NoReq,
                              ![c].ran = CancelPending(conns[c].proc)]
    /\ UNCHANGED <<logVars, seenVars, lookup, published, lruVars, lifecycleVars, now, user_message_timestamps, messages, inbound,
                   budget, reactions>>

\* the update returned (lines 280-291): the rate timestamp is appended, which
\* raises KeyError when the user's entry is gone, and the row is broadcast
ReactFinish(c) ==
    /\ conns[c].pc = "updated" /\ ~conns[c].ran
    /\ LET u == conns[c].user
           p == conns[c].proc
           r == conns[c].req
           got == _get_chat_participants(participant_cache[p], r.chat_id, now)
       IN IF ~r.ok
          THEN /\ outbox' = send_json(outbox, c, error_payload("Failed to save your reaction."))
               /\ UNCHANGED <<user_reaction_timestamps, participant_cache>>
          ELSE IF u \notin DOMAIN user_reaction_timestamps[p]
          THEN /\ outbox' = send_json(outbox, c, error_payload("Invalid payload for toggle_reaction"))
               /\ UNCHANGED <<user_reaction_timestamps, participant_cache>>
          ELSE /\ user_reaction_timestamps' =
                      [user_reaction_timestamps EXCEPT ![p][u] = Append(@, r.at)]
               /\ participant_cache' = [participant_cache EXCEPT ![p] = got.cache]
               /\ outbox' = broadcast_reaction_update(outbox, p, r.chat_id, r.id, r.reactions,
                                                      got.participant_ids)
    /\ conns' = [conns EXCEPT ![c].pc = "open", ![c].req = NoReq,
                              ![c].ran = CancelPending(conns[c].proc)]
    /\ UNCHANGED <<logVars, seenVars, lookup, published, lruVars, lifecycleVars, now, user_message_timestamps, messages, inbound,
                   budget, reactions>>

\* an unknown frame that ends the receive loop without an answer
UnknownEventCloses(c) ==
    /\ conns[c].pc = "open" /\ conns[c].alive /\ ~conns[c].ran /\ budget > 0
    /\ budget' = budget - 1
    /\ inbound' = [inbound EXCEPT ![c] = Append(@, [event_type |-> "unknown"])]
    /\ conns' = [conns EXCEPT ![c].pc = "closed", ![c].alive = FALSE]
    /\ UNCHANGED <<logVars, seenVars, lookup, published, lruVars, reactVars, lifecycleVars, outbox, now, user_message_timestamps,
                   messages, participant_cache>>

\* a frame whose event_type no branch recognizes (lines 325-327)
UnknownEvent(c) ==
    /\ conns[c].pc = "open" /\ conns[c].alive /\ ~conns[c].ran /\ budget > 0
    /\ budget' = budget - 1
    /\ inbound' = [inbound EXCEPT ![c] = Append(@, [event_type |-> "unknown"])]
    /\ outbox' = send_json(outbox, c, error_payload("Unknown event_type"))
    /\ conns' = [conns EXCEPT ![c].ran = CancelPending(conns[c].proc)]
    /\ UNCHANGED <<logVars, seenVars, lookup, published, lruVars, reactVars, lifecycleVars, now, user_message_timestamps, messages,
                   participant_cache>>

\* the ways a frame can be malformed: text that is not JSON, a send_message
\* without chat_id, a send_message whose chat_id is no UUID, and JSON that is not
\* an object (a list, a string, a number)
FrameFaults == {"invalid_json", "missing_chat_id", "malformed_uuid", "non_object"}

\* what the handler answers to a malformed frame (lines 147, 157-158 and 331)
frame_error(kind) ==
    IF kind = "invalid_json" THEN error_payload("Invalid JSON payload")
    ELSE IF kind = "missing_chat_id"
    THEN error_payload("Invalid payload for send_message: Missing chat_id")
    ELSE error_payload("Invalid payload for send_message: badly formed hexadecimal UUID string")

\* a malformed frame is received (lines 139-158). json.loads raising is answered at
\* lines 145-148, a ValueError of lines 157-158 at lines 329-331, and the loop goes
\* on. For JSON that is not an object data.get raises AttributeError at line 150,
\* outside the inner try: the handler of lines 339-345 closes the websocket and the
\* finally block of lines 346-357 runs
MalformedFrame(c, kind) ==
    /\ conns[c].pc = "open" /\ conns[c].alive /\ ~conns[c].ran /\ budget > 0
    /\ budget' = budget - 1
    /\ inbound' = [inbound EXCEPT ![c] = Append(@, [event_type |-> "malformed", kind |-> kind])]
    /\ IF kind # "non_object"
       THEN /\ outbox' = send_json(outbox, c, frame_error(kind))
            /\ conns' = [conns EXCEPT ![c].ran = CancelPending(conns[c].proc)]
            /\ UNCHANGED <<lifecycleVars, user_message_timestamps, user_reaction_timestamps>>
       ELSE /\ schedule_graceful_disconnect(conns[c].user, conns[c].proc)
            /\ conns' = [conns EXCEPT ![c].pc = "closed", ![c].alive = FALSE]
            /\ presence_broadcasts' =
                   [presence_broadcasts EXCEPT ![conns[c].proc][conns[c].user] = 0]
            /\ user_message_timestamps' = [user_message_timestamps EXCEPT ![conns[c].proc] =
                   [u \in DOMAIN @ \ {conns[c].user} |-> @[u]]]
            /\ user_reaction_timestamps' = [user_reaction_timestamps EXCEPT ![conns[c].proc] =
                   [u \in DOMAIN @ \ {conns[c].user} |-> @[u]]]
            /\ UNCHANGED <<outbox, users_is_online, online_written_by>>
    /\ UNCHANGED <<logVars, seenVars, lookup, published, lruVars, reactions, now, messages,
                   participant_cache>>

\* a call of manager._get_chat_participants on process p
GetParticipants(p, chat_id) ==
    /\ budget > 0
    /\ budget' = budget - 1
    /\ LET got == _get_chat_participants(participant_cache[p], chat_id, now) IN
       /\ participant_cache' = [participant_cache EXCEPT ![p] = got.cache]
       /\ lookup' = [proc |-> p, chat_id |-> chat_id,
                     participant_ids |-> got.participant_ids, hit |-> got.hit,
                     raised |-> FALSE]
    /\ UNCHANGED <<logVars, seenVars, published, lruVars, reactVars, conns, outbox, lifecycleVars, now,
                   user_message_timestamps, messages, inbound>>

\* a call of manager._get_chat_participants on process p while the store is down
GetParticipantsFail(p, chat_id) ==
    /\ budget > 0
    /\ budget' = budget - 1
    /\ LET got == _get_chat_participants_raises(participant_cache[p], chat_id, now) IN
       /\ participant_cache' = [participant_cache EXCEPT ![p] = got.cache]
       /\ lookup' = [proc |-> p, chat_id |-> chat_id,
                     participant_ids |-> got.participant_ids, hit |-> got.hit,
                     raised |-> ~got.hit]
    /\ UNCHANGED <<logVars, seenVars, published, lruVars, reactVars, conns, outbox, lifecycleVars, now,
                   user_message_timestamps, messages, inbound>>

\* a call of manager._get_chat_participants on process p up to its first
\* suspension (lines 132-145): a fresh entry is moved to the end and returned; an
\* expired entry is deleted, and the call waits for the select of line 145
LookupBegin(k, p, chat_id) ==
    /\ pending_lookups[k].pc = "idle"
    /\ \A j \in DOMAIN pending_lookups : j < k => pending_lookups[j].pc # "idle"
    /\ LET cache == participant_cache[p]
           i == CacheIndex(cache, chat_id)
           hit == i # 0 /\ now - cache[i].cached_time < CACHE_TTL_SECONDS
       IN IF hit
          THEN /\ participant_cache' =
                      [participant_cache EXCEPT ![p] = Append(CacheDel(cache, i), cache[i])]
               /\ cache_uses' = [cache_uses EXCEPT ![p] = Append(@, chat_id)]
               /\ pending_lookups' = [pending_lookups EXCEPT ![k] =
                      [pc |-> "done", proc |-> p, chat_id |-> chat_id, at |-> now,
                       participant_ids |-> cache[i].participant_ids]]
          ELSE /\ participant_cache' =
                      [participant_cache EXCEPT ![p] = IF i # 0 THEN CacheDel(cache, i)
                                                                ELSE cache]
               /\ pending_lookups' = [pending_lookups EXCEPT ![k] =
                      [pc |-> "waiting", proc |-> p, chat_id |-> chat_id, at |-> now,
                       participant_ids |-> <<>>]]
               /\ UNCHANGED cache_uses
    /\ UNCHANGED <<logVars, seenVars, lookup, published, reactVars, conns, outbox, lifecycleVars,
                   now, user_message_timestamps, messages, inbound, budget>>

\* the select of line 145 returned: the rows are stored (lines 147-157)
LookupEnd(k) ==
    /\ pending_lookups[k].pc = "waiting"
    /\ LET call == pending_lookups[k] IN
       /\ participant_cache' = [participant_cache EXCEPT ![call.proc] =
                                   CacheStore(@, call.chat_id, call.at)]
       /\ cache_uses' = [cache_uses EXCEPT ![call.proc] = Append(@, call.chat_id)]
       /\ pending_lookups' = [pending_lookups EXCEPT ![k].pc = "done",
                                 ![k].participant_ids = chat_participants[call.chat_id]]
    /\ UNCHANGED <<logVars, seenVars, lookup, published, reactVars, conns, outbox, lifecycleVars,
                   now, user_message_timestamps, messages, inbound, budget>>

\* time passes in the cache scenario
TickCache ==
    /\ now + CacheTickSeconds <= MaxCacheTime
    /\ now' = now + CacheTickSeconds
    /\ UNCHANGED <<logVars, seenVars, published, lruVars, reactVars, lookup, conns, outbox, lifecycleVars,
                   user_message_timestamps, messages, participant_cache, inbound, budget>>

\* a change_chat_mode frame: no branch of the dispatch (lines 155-324) names this
\* event_type, so the else branch of lines 325-327 answers it
ChangeChatMode(c, chat_id) ==
    /\ conns[c].pc = "open" /\ conns[c].alive /\ ~conns[c].ran /\ budget > 0
    /\ budget' = budget - 1
    /\ inbound' = [inbound EXCEPT ![c] = Append(@, [event_type |-> "change_chat_mode",
                                                     chat_id |-> chat_id])]
    /\ outbox' = send_json(outbox, c, error_payload("Unknown event_type: change_chat_mode"))
    /\ conns' = [conns EXCEPT ![c].ran = CancelPending(conns[c].proc)]
    /\ UNCHANGED <<logVars, seenVars, lookup, published, lruVars, reactVars, lifecycleVars, now, user_message_timestamps,
                   messages, participant_cache>>

\* a HEARTBEAT frame is received and update_user_last_seen_throttled is called
\* (lines 139-141, 36-42): when the user has no entry or the entry is older than
\* the throttle, the update of users.last_seen is sent
Heartbeat(c) ==
    /\ conns[c].pc = "open" /\ conns[c].alive /\ ~conns[c].ran /\ budget > 0
    /\ budget' = budget - 1
    /\ inbound' = [inbound EXCEPT ![c] = Append(@, [event_type |-> "HEARTBEAT"])]
    /\ LET last_update_time == user_last_activity_update_db[conns[c].proc][conns[c].user] IN
       IF last_update_time = None
          \/ now - last_update_time > THROTTLE_LAST_SEEN_UPDATE_SECONDS
       THEN conns' = [conns EXCEPT ![c].pc = "touching",
                                   ![c].ran = CancelPending(conns[c].proc),
                                   ![c].req = [NoReq EXCEPT !.at = now]]
       ELSE conns' = [conns EXCEPT ![c].ran = CancelPending(conns[c].proc)]
    /\ UNCHANGED <<logVars, seenVars, lookup, published, lruVars, reactVars, lifecycleVars, outbox, now,
                   user_message_timestamps, messages, participant_cache>>

\* the update of users.last_seen returned (lines 42-46): the store applied it and
\* the time is recorded, or the call raised; the HEARTBEAT branch does nothing more
HeartbeatWritten(c) ==
    /\ conns[c].pc = "touching" /\ ~conns[c].ran
    /\ \E ok \in BOOLEAN :
          /\ last_seen_writes' = IF ok
                THEN Append(last_seen_writes, [user |-> conns[c].user, at |-> conns[c].req.at])
                ELSE last_seen_writes
          /\ user_last_activity_update_db' = IF ok
                THEN [user_last_activity_update_db EXCEPT
                         ![conns[c].proc][conns[c].user] = conns[c].req.at]
                ELSE user_last_activity_update_db
    /\ conns' = [conns EXCEPT ![c].pc = "open", ![c].req = NoReq,
                              ![c].ran = CancelPending(conns[c].proc)]
    /\ UNCHANGED <<logVars, lookup, published, lruVars, reactVars, lifecycleVars, outbox, chatVars>>

\* the peer or the network drops the socket; the handler has not noticed yet
TransportClose(c) ==
    /\ conns[c].pc \notin {"free", "closed"} /\ conns[c].alive
    /\ conns' = [conns EXCEPT ![c].alive = FALSE]
    /\ UNCHANGED <<logVars, seenVars, lookup, published, lruVars, reactVars, outbox, lifecycleVars, chatVars>>

\* time passes
Tick ==
    /\ now + TickSeconds <= MaxTime
    /\ now' = now + TickSeconds
    /\ UNCHANGED <<logVars, seenVars, lookup, published, lruVars, reactVars, conns, outbox, lifecycleVars, user_message_timestamps, messages,
                   participant_cache, inbound, budget>>

---------------------------------------------------------------------------
(* The event log and the broadcast channel: routers/events.py reads them    *)
(* (sse_event_generator, sync_events).  The publisher that writes them is   *)
(* not part of app/websocket/manager.py; it is modelled from section 4.3 of *)
(* the specification.                                                      *)

Bodies == {"a"}
Targets == {{"u1"}, {"u2"}, {"u1", "u2"}}

IdlePublisher == [pc |-> "idle", envelope |-> [sequence |-> 0, target_user_ids |-> {},
                                               payload |-> [event_type |-> "none", body |-> "a",
                                                           sequence |-> 0]]]
\* (errors, err_at: the read errors the loop caught and the length of the channel at
\* the last of them; exit: why the generator ended; subscribed, handle: the pubsub
\* object's subscription to BROADCAST_CHANNEL and its connection)
NoStream == [pc |-> "off", pos |-> 0, out |-> <<>>, first |-> 0, pings |-> 0,
             errors |-> 0, err_at |-> 0, exit |-> "none", subscribed |-> FALSE,
             handle |-> "none"]
\* (status: the HTTP status; store: whether the store could be reached)
NoResponse == [user |-> "none", since |-> 0, events |-> <<>>, status |-> 200, store |-> "up"]

\* an increment that is lost: the counter keeps its value
next_sequence_lost(counter) == counter

\* INCR of the shared counter: the counter left, which is the value returned
next_sequence(counter) == counter + 1

\* publish, first step: the sequence is assigned and attached
PublishStamp(p, target_user_ids, body) ==
    /\ publishers[p].pc = "idle" /\ sequence_counter < MaxSeq
    /\ sequence_counter' = next_sequence(sequence_counter)
    /\ publishers' = [publishers EXCEPT ![p] =
            [pc |-> "stamped",
             envelope |-> [sequence |-> next_sequence(sequence_counter),
                           target_user_ids |-> target_user_ids,
                           payload |-> [event_type |-> "new_message", body |-> body,
                                        sequence |-> next_sequence(sequence_counter)]]]]
    /\ UNCHANGED <<conns, outbox, lifecycleVars, chatVars, seenVars, lookup, published, lruVars, reactVars, event_log, channel, sse, sync_response>>

\* ZADD: the member is placed by its score
zadd(zset, score, member) ==
    LET before == SelectSeq(zset, LAMBDA e : e.score <= score)
        after == SelectSeq(zset, LAMBDA e : e.score > score)
    IN before \o <<[score |-> score, member |-> member]>> \o after

\* publish, second step: (sequence, envelope) goes into the log
PublishLog(p) ==
    /\ publishers[p].pc = "stamped"
    /\ event_log' = zadd(event_log, publishers[p].envelope.sequence,
                         [target_user_ids |-> publishers[p].envelope.target_user_ids,
                          payload |-> publishers[p].envelope.payload])
    /\ publishers' = [publishers EXCEPT ![p].pc = "logged"]
    /\ UNCHANGED <<conns, outbox, lifecycleVars, chatVars, seenVars, lookup, published, lruVars, reactVars, sequence_counter, channel, sse,
                   sync_response>>

\* publish, last step: the envelope goes out on the channel
PublishSend(p) ==
    /\ publishers[p].pc = "logged"
    /\ channel' = Append(channel, publishers[p].envelope)
    /\ publishers' = [publishers EXCEPT ![p] = IdlePublisher]
    /\ UNCHANGED <<conns, outbox, lifecycleVars, chatVars, seenVars, lookup, published, lruVars, reactVars, sequence_counter, event_log, sse,
                   sync_response>>

\* the asynchronous trim: the oldest entry goes when more than LogKeep are held
Trim ==
    /\ Len(event_log) > LogKeep
    /\ event_log' = Tail(event_log)
    /\ UNCHANGED <<conns, outbox, lifecycleVars, chatVars, seenVars, lookup, published, lruVars, reactVars, sequence_counter, channel, publishers,
                   sse, sync_response>>

\* sse_event_generator up to its first yield: subscribe, then sse_connected
SseSubscribe(u) ==
    /\ sse[u].pc = "off"
    /\ sse' = [sse EXCEPT ![u] = [NoStream EXCEPT !.pc = "subscribed", !.pos = Len(channel),
                                      !.out = <<[event_type |-> "sse_connected"]>>,
                                      !.first = Len(channel), !.subscribed = TRUE,
                                      !.handle = "open"]]
    /\ UNCHANGED <<conns, outbox, lifecycleVars, chatVars, seenVars, lookup, published, lruVars, reactVars, sequence_counter, event_log, channel,
                   publishers, sync_response>>

\* lines 43-48 without the test of line 45
sse_events_unfiltered(message_data, user_id_str) == <<message_data.payload>>

\* lines 43-48: what the generator yields for a message taken from the channel
sse_events(message_data, user_id_str) ==
    IF user_id_str \in message_data.target_user_ids THEN <<message_data.payload>> ELSE <<>>

\* pubsub.get_message returned a message
SseGetMessage(u) ==
    /\ sse[u].pc = "subscribed" /\ sse[u].pos < Len(channel)
    /\ sse' = [sse EXCEPT ![u].pos = @ + 1,
                          ![u].out = @ \o sse_events(channel[sse[u].pos + 1], u)]
    /\ UNCHANGED <<conns, outbox, lifecycleVars, chatVars, seenVars, lookup, published, lruVars, reactVars, sequence_counter, event_log, channel,
                   publishers, sync_response>>

\* pubsub.get_message returned nothing within its timeout: a keep-alive ping
SseTimeout(u) ==
    /\ sse[u].pc = "subscribed" /\ sse[u].pos = Len(channel) /\ sse[u].pings < MaxPings
    /\ sse' = [sse EXCEPT ![u].pings = @ + 1,
                          ![u].out = Append(@, [event_type |-> "ping"])]
    /\ UNCHANGED <<conns, outbox, lifecycleVars, chatVars, seenVars, lookup, published, lruVars, reactVars, sequence_counter, event_log, channel,
                   publishers, sync_response>>

\* the finally block of lines 61-65: unsubscribe, then close
sse_finally(stream) == [stream EXCEPT !.subscribed = FALSE, !.handle = "closed"]

\* request.is_disconnected(): the loop ends and the finally block unsubscribes
SseDisconnect(u) ==
    /\ sse[u].pc = "subscribed"
    /\ sse' = [sse EXCEPT ![u] = sse_finally([@ EXCEPT !.pc = "closed",
                                                      !.exit = "disconnected"])]
    /\ UNCHANGED <<conns, outbox, lifecycleVars, chatVars, seenVars, lookup, published, lruVars, reactVars, sequence_counter, event_log, channel,
                   publishers, sync_response>>

\* a read error that ends the generator
SseReadErrorEnds(u) ==
    /\ sse[u].pc = "subscribed" /\ sse[u].errors < MaxReadErrors
    /\ sse' = [sse EXCEPT ![u] = sse_finally([@ EXCEPT !.pc = "closed", !.errors = @ + 1,
                                                      !.err_at = Len(channel)])]
    /\ UNCHANGED <<conns, outbox, lifecycleVars, chatVars, seenVars, lookup, published, lruVars, reactVars, sequence_counter, event_log, channel,
                   publishers, sync_response>>

\* pubsub.get_message raises (lines 54-56): the error is logged and the generator
\* sleeps one second
SseReadError(u) ==
    /\ sse[u].pc = "subscribed" /\ sse[u].errors < MaxReadErrors
    /\ sse' = [sse EXCEPT ![u].pc = "backoff", ![u].errors = @ + 1,
                          ![u].err_at = Len(channel)]
    /\ UNCHANGED <<conns, outbox, lifecycleVars, chatVars, seenVars, lookup, published, lruVars, reactVars, sequence_counter, event_log, channel,
                   publishers, sync_response>>

\* asyncio.sleep(1) returned: the loop goes on at line 34
SseResume(u) ==
    /\ sse[u].pc = "backoff"
    /\ sse' = [sse EXCEPT ![u].pc = "subscribed"]
    /\ UNCHANGED <<conns, outbox, lifecycleVars, chatVars, seenVars, lookup, published, lruVars, reactVars, sequence_counter, event_log, channel,
                   publishers, sync_response>>

\* the generator's task is cancelled while it waits (lines 59-65): CancelledError
\* is caught and the finally block runs
SseCancel(u) ==
    /\ sse[u].pc \in {"subscribed", "backoff"}
    /\ sse' = [sse EXCEPT ![u] = sse_finally([@ EXCEPT !.pc = "closed",
                                                      !.exit = "cancelled"])]
    /\ UNCHANGED <<conns, outbox, lifecycleVars, chatVars, seenVars, lookup, published, lruVars, reactVars, sequence_counter, event_log, channel,
                   publishers, sync_response>>

\* the ways the generator leaves its loop
SseExits == {"disconnected", "cancelled"}

\* the finally block of lines 61-65 does not run to its end: the store connection
\* is lost and pubsub.unsubscribe raises at line 64, or the task is cancelled
\* while line 64 waits; pubsub.close of line 65 is never called
SseFinallyInterrupted(u, exit) ==
    /\ sse[u].pc \in (IF exit = "disconnected" THEN {"subscribed"}
                       ELSE {"subscribed", "backoff"})
    /\ sse' = [sse EXCEPT ![u].pc = "closed", ![u].exit = exit]
    /\ UNCHANGED <<conns, outbox, lifecycleVars, chatVars, seenVars, lookup, published, lruVars, reactVars, sequence_counter, event_log, channel,
                   publishers, sync_response>>

\* an argument of ZRANGE as sync_events writes it: "(N" or "+inf"
Exclusive(n) == [kind |-> "exclusive", n |-> n]
PlusInf == [kind |-> "inf", n |-> 0]
Index(n) == [kind |-> "index", n |-> n]

\* redis.zrange(key, start, end, withscores=True, byscore=byscore): by score the
\* members whose score lies in the range; by rank (the default) start and end
\* must be integers, anything else is the error reply "value is not an integer
\* or out of range"
zrange(zset, start, end, byscore) ==
    LET above(e, a) == IF a.kind = "exclusive" THEN e.score > a.n
                       ELSE IF a.kind = "inf" THEN FALSE ELSE e.score >= a.n
        below(e, b) == IF b.kind = "exclusive" THEN e.score < b.n
                       ELSE IF b.kind = "inf" THEN TRUE ELSE e.score <= b.n
        rank(n) == IF n < 0 THEN Len(zset) + n + 1 ELSE n + 1
    IN IF byscore
       THEN [error |-> FALSE, pairs |-> SelectSeq(zset, LAMBDA e : above(e, start) /\ below(e, end))]
       ELSE IF start.kind # "index" \/ end.kind # "index"
       THEN [error |-> TRUE, pairs |-> <<>>]
       ELSE [error |-> FALSE,
             pairs |-> SubSeq(zset, IF rank(start.n) < 1 THEN 1 ELSE rank(start.n),
                              IF rank(end.n) > Len(zset) THEN Len(zset) ELSE rank(end.n))]

RECURSIVE authorized_events(_, _)
\* the loop of lines 100-107
authorized_events(event_score_pairs, user_id_str) ==
    IF event_score_pairs = <<>> THEN <<>>
    ELSE LET event_data == Head(event_score_pairs).member
             payload_with_seq == [event_type |-> event_data.payload.event_type,
                                  body |-> event_data.payload.body,
                                  sequence |-> Head(event_score_pairs).score]
         IN (IF user_id_str \in event_data.target_user_ids THEN <<payload_with_seq>> ELSE <<>>)
            \o authorized_events(Tail(event_score_pairs), user_id_str)

\* the body of sync_events: zrange without byscore, the loop, [] on any exception
sync_events(zset, user_id_str, since) ==
    LET reply == zrange(zset, Exclusive(since), PlusInf, FALSE) IN
    IF reply.error THEN <<>> ELSE authorized_events(reply.pairs, user_id_str)

\* GET /events/sync?since=N by user u
SyncEvents(u, since) ==
    /\ sync_response' = [user |-> u, since |-> since, events |-> sync_events(event_log, u, since),
                         status |-> 200, store |-> "up"]
    /\ UNCHANGED <<conns, outbox, lifecycleVars, chatVars, seenVars, lookup, published, lruVars, reactVars, sequence_counter, event_log, channel,
                   publishers, sse>>

\* redis_manager.get_client (redis_client.py lines 24-29): the client the process
\* holds, or a new one when connect can reach the store, else ConnectionError
get_redis_client(has_client, reachable) ==
    IF has_client \/ reachable THEN [error |-> FALSE] ELSE [error |-> TRUE]

\* GET /events/sync?since=N by user u while the store cannot be reached, served by
\* a process that holds a client (has_client) or never connected before. Line 92
\* is outside the try block: an error of get_redis_client leaves the handler and
\* the exception handler of main.py answers with status 500; with a client,
\* zrange raises and lines 111-113 return []
SyncEventsStoreDown(u, since, has_client) ==
    /\ sync_response' =
           IF get_redis_client(has_client, FALSE).error
           THEN [user |-> u, since |-> since, events |-> <<>>, status |-> 500, store |-> "down"]
           ELSE [user |-> u, since |-> since, events |-> <<>>, status |-> 200, store |-> "down"]
    /\ UNCHANGED <<conns, outbox, lifecycleVars, chatVars, seenVars, lookup, published, lruVars, reactVars, sequence_counter, event_log, channel,
                   publishers, sse>>

---------------------------------------------------------------------------
\* One process, one user whose chat partner is not connected
Init ==
    /\ conns = [c \in 1..MaxConns |-> FreeConn]
    /\ tasks = [t \in 1..MaxTasks |-> FreeTask]
    /\ active_connections = [p \in Procs |-> [u \in Users |-> None]]
    /\ pending_offline_tasks = [p \in Procs |-> [u \in Users |-> None]]
    /\ users_is_online = [u \in Users |-> FALSE]
    /\ online_written_by = [u \in Users |-> NoProc]
    /\ presence_broadcasts = [p \in Procs |-> [u \in Users |-> 0]]
    /\ outbox = [c \in 1..MaxConns |-> <<>>]
    /\ now = 0
    /\ user_message_timestamps = [p \in Procs |-> <<>>]
    /\ messages = <<>>
    /\ participant_cache = [p \in Procs |-> <<>>]
    /\ inbound = [c \in 1..MaxConns |-> <<>>]
    /\ budget = 0
    /\ user_reaction_timestamps = [p \in Procs |-> <<>>]
    /\ reactions = {}
    /\ lookup = NoLookup
    /\ published = <<>>
    /\ pending_lookups = [k \in 1..1 |-> NoCall]
    /\ cache_uses = [p \in Procs |-> <<>>]
    /\ user_last_activity_update_db = [p \in Procs |-> [u \in Users |-> None]]
    /\ last_seen_writes = <<>>
    /\ sequence_counter = 0
    /\ event_log = <<>>
    /\ channel = <<>>
    /\ publishers = [p \in Procs |-> IdlePublisher]
    /\ sse = [u \in Users |-> NoStream]
    /\ sync_response = NoResponse

Next ==
    \/ \E c \in ConnIds : ConnectBegin(c, "u1", "P")
    \/ \E c \in ConnIds : ConnectRegister(c)
    \/ \E c \in ConnIds : ConnectOnline(c)
    \/ \E c \in ConnIds : ConnectBroadcast(c)
    \/ \E c \in ConnIds : Disconnect(c)
    \/ \E t \in TaskIds : TaskStart(t)
    \/ \E t \in TaskIds : TaskWake(t)
    \/ \E t \in TaskIds : TaskUpdate(t)
    \/ \E t \in TaskIds : TaskBroadcast(t)
    \/ \E t \in TaskIds : TaskCancelled(t)

Spec == Init /\ [][Next]_vars

\* The lifecycle of u1 with connection attempts that fail authentication
NextAuth ==
    \/ Next
    \/ \E c \in ConnIds, token \in BadTokens : ConnectUnauthenticated(c, "P", token)

SpecAuth == Init /\ [][NextAuth]_vars

\* the connections of the chat scenario, in the order they are taken
ChatPlaces == << <<"u1", "P">>, <<"u2", "Q">>, <<"u2", "P">>, <<"u3", "P">>,
                 <<"u1", "Q">>, <<"u3", "Q">> >>

\* Chat scenario: the first MaxChatConns connections of ChatPlaces are established,
\* every one registered and its user online
InitChat ==
    LET place == [c \in 1..MaxChatConns |-> ChatPlaces[c]] IN
        /\ conns = [c \in 1..MaxChatConns |->
                        [FreeConn EXCEPT !.user = place[c][1], !.proc = place[c][2],
                                         !.pc = "open", !.alive = TRUE, !.latest = TRUE]]
        /\ tasks = [t \in 1..1 |-> FreeTask]
        /\ active_connections = [p \in Procs |-> [u \in Users |->
                IF \E c \in 1..MaxChatConns : place[c] = <<u, p>>
                THEN CHOOSE c \in 1..MaxChatConns : place[c] = <<u, p>> ELSE None]]
        /\ pending_offline_tasks = [p \in Procs |-> [u \in Users |-> None]]
        /\ users_is_online = [u \in Users |-> \E c \in 1..MaxChatConns : place[c][1] = u]
        /\ online_written_by = [u \in Users |->
                IF \E c \in 1..MaxChatConns : place[c][1] = u
                THEN place[CHOOSE c \in 1..MaxChatConns :
                        /\ place[c][1] = u
                        /\ \A d \in 1..MaxChatConns : place[d][1] = u => d <= c][2]
                ELSE NoProc]
        /\ presence_broadcasts = [p \in Procs |-> [u \in Users |-> 0]]
        /\ outbox = [c \in 1..MaxChatConns |-> <<>>]
        /\ now = 0
        /\ user_message_timestamps = [p \in Procs |-> <<>>]
        /\ messages = <<>>
        /\ participant_cache = [p \in Procs |-> <<>>]
        /\ inbound = [c \in 1..MaxChatConns |-> <<>>]
        /\ budget = MaxEvents
        /\ user_reaction_timestamps = [p \in Procs |-> <<>>]
        /\ reactions = {}
        /\ lookup = NoLookup
        /\ published = <<>>
        /\ pending_lookups = [k \in 1..1 |-> NoCall]
        /\ cache_uses = [p \in Procs |-> <<>>]
        /\ user_last_activity_update_db = [p \in Procs |-> [u \in Users |-> None]]
        /\ last_seen_writes = <<>>
        /\ sequence_counter = 0
        /\ event_log = <<>>
        /\ channel = <<>>
        /\ publishers = [p \in Procs |-> IdlePublisher]
        /\ sse = [u \in Users |-> NoStream]
        /\ sync_response = NoResponse

NextChat ==
    \/ \E c \in ConnIds, ch \in Chats, tmp \in TempIds : SendBegin(c, ch, tmp)
    \/ \E c \in ConnIds : SendInsert(c)
    \/ \E c \in ConnIds : SendFinish(c)
    \/ \E u \in Users, p \in Procs, ch \in Chats, tmp \in TempIds : send_message_http(u, p, ch, tmp)
    \/ \E c \in ConnIds, ch \in Chats, is_typing \in BOOLEAN : Typing(c, ch, is_typing)
    \/ \E c \in ConnIds : TransportClose(c)
    \/ Tick

SpecChat == InitChat /\ [][NextChat]_vars

\* The chat scenario with a store whose chats update may fail
NextFault ==
    \/ \E c \in ConnIds, tmp \in TempIds : SendBegin(c, "c1", tmp)
    \/ \E c \in ConnIds : SendInsert(c)
    \/ \E c \in ConnIds : SendFinish(c)
    \/ \E c \in ConnIds : SendFinishFault(c)
    \/ Tick

SpecFault == InitChat /\ [][NextFault]_vars

\* The chat scenario with the participant lookup of a broadcast as a step of its
\* own: two handlers of one process can both be inside broadcast_chat_message
NextOrder ==
    \/ \E c \in ConnIds, tmp \in TempIds : SendBegin(c, "c1", tmp)
    \/ \E c \in ConnIds : SendInsert(c)
    \/ \E c \in ConnIds : SendPublish(c)
    \/ \E c \in ConnIds : SendDeliver(c)
    \/ Tick

SpecOrder == InitChat /\ [][NextOrder]_vars

\* The chat scenario with clients that send malformed frames
NextFrames ==
    \/ \E c \in ConnIds, kind \in FrameFaults : MalformedFrame(c, kind)
    \/ \E c \in ConnIds, tmp \in TempIds : SendBegin(c, "c1", tmp)
    \/ \E c \in ConnIds : SendInsert(c)
    \/ \E c \in ConnIds : SendFinish(c)

SpecFrames == InitChat /\ [][NextFrames]_vars

\* The chat scenario with a store that fails during participant lookups
NextMiss ==
    \/ \E c \in ConnIds, tmp \in TempIds : SendBegin(c, "c1", tmp)
    \/ \E c \in ConnIds : SendInsert(c)
    \/ \E c \in ConnIds : SendFinish(c)
    \/ \E c \in ConnIds : SendFinishLookupFails(c)
    \/ \E ch \in Chats : GetParticipants("P", ch)
    \/ \E ch \in Chats : GetParticipantsFail("P", ch)
    \/ Tick

SpecMiss == InitChat /\ [][NextMiss]_vars

\* Rate scenario: u1 is connected to P and has sent SentBefore messages to chat c1
\* over this connection at time 0; one more connection and grace timers are free
SentRow(i) == message_row(i, "c1", "u1", "t1", 0, 1, "P")

InitRate ==
    /\ conns = [c \in 1..2 |-> IF c = 1 THEN [FreeConn EXCEPT !.pc = "open", !.alive = TRUE,
                                                              !.latest = TRUE]
                                ELSE FreeConn]
    /\ tasks = [t \in 1..2 |-> FreeTask]
    /\ active_connections = [p \in Procs |-> [u \in Users |->
            IF p = "P" /\ u = "u1" THEN 1 ELSE None]]
    /\ pending_offline_tasks = [p \in Procs |-> [u \in Users |-> None]]
    /\ users_is_online = [u \in Users |-> u = "u1"]
    /\ online_written_by = [u \in Users |-> IF u = "u1" THEN "P" ELSE NoProc]
    /\ presence_broadcasts = [p \in Procs |-> [u \in Users |-> 0]]
    /\ outbox = [c \in 1..2 |-> IF c = 1 THEN [i \in 1..SentBefore |-> new_message_payload(SentRow(i))]
                                 ELSE <<>>]
    /\ now = 0
    /\ user_message_timestamps = [p \in Procs |->
            IF p = "P" THEN [u \in {"u1"} |-> [i \in 1..SentBefore |-> 0]] ELSE <<>>]
    /\ messages = [i \in 1..SentBefore |-> SentRow(i)]
    /\ participant_cache = [p \in Procs |->
            IF p = "P" THEN <<[chat_id |-> "c1", cached_time |-> 0,
                               participant_ids |-> chat_participants["c1"]]>>
            ELSE <<>>]
    /\ inbound = [c \in 1..2 |-> IF c = 1
            THEN [i \in 1..SentBefore |-> [event_type |-> "send_message", chat_id |-> "c1",
                                            client_temp_id |-> "t1"]]
            ELSE <<>>]
    /\ budget = MaxRateEvents
    /\ user_reaction_timestamps = [p \in Procs |-> <<>>]
    /\ reactions = {}
    /\ lookup = NoLookup
    /\ published = <<>>
    /\ pending_lookups = [k \in 1..1 |-> NoCall]
    /\ cache_uses = [p \in Procs |-> <<>>]
    /\ user_last_activity_update_db = [p \in Procs |-> [u \in Users |-> None]]
    /\ last_seen_writes = <<>>
    /\ sequence_counter = 0
    /\ event_log = <<>>
    /\ channel = <<>>
    /\ publishers = [p \in Procs |-> IdlePublisher]
    /\ sse = [u \in Users |-> NoStream]
    /\ sync_response = NoResponse

NextRate ==
    \/ \E c \in ConnIds : SendBegin(c, "c1", "t1")
    \/ \E c \in ConnIds : SendInsert(c)
    \/ \E c \in ConnIds : SendFinish(c)
    \/ send_message_http("u1", "P", "c1", "t1")
    \/ \E c \in ConnIds : ConnectBegin(c, "u1", "P")
    \/ \E c \in ConnIds : ConnectRegister(c)
    \/ \E c \in ConnIds : ConnectOnline(c)
    \/ \E c \in ConnIds : ConnectBroadcast(c)
    \/ \E c \in ConnIds : Disconnect(c)
    \/ \E t \in TaskIds : TaskStart(t)
    \/ \E t \in TaskIds : TaskWake(t)
    \/ \E t \in TaskIds : TaskUpdate(t)
    \/ \E t \in TaskIds : TaskBroadcast(t)
    \/ \E t \in TaskIds : TaskCancelled(t)
    \/ Tick

SpecRate == InitRate /\ [][NextRate]_vars

\* Event log scenario: no websocket is connected; both processes publish, users
\* follow the channel over SSE and ask for replays
InitLog ==
    /\ conns = [c \in 1..1 |-> FreeConn]
    /\ tasks = [t \in 1..1 |-> FreeTask]
    /\ active_connections = [p \in Procs |-> [u \in Users |-> None]]
    /\ pending_offline_tasks = [p \in Procs |-> [u \in Users |-> None]]
    /\ users_is_online = [u \in Users |-> FALSE]
    /\ online_written_by = [u \in Users |-> NoProc]
    /\ presence_broadcasts = [p \in Procs |-> [u \in Users |-> 0]]
    /\ outbox = [c \in 1..1 |-> <<>>]
    /\ now = 0
    /\ user_message_timestamps = [p \in Procs |-> <<>>]
    /\ messages = <<>>
    /\ participant_cache = [p \in Procs |-> <<>>]
    /\ inbound = [c \in 1..1 |-> <<>>]
    /\ budget = 0
    /\ user_reaction_timestamps = [p \in Procs |-> <<>>]
    /\ reactions = {}
    /\ lookup = NoLookup
    /\ published = <<>>
    /\ pending_lookups = [k \in 1..1 |-> NoCall]
    /\ cache_uses = [p \in Procs |-> <<>>]
    /\ user_last_activity_update_db = [p \in Procs |-> [u \in Users |-> None]]
    /\ last_seen_writes = <<>>
    /\ sequence_counter = 0
    /\ event_log = <<>>
    /\ channel = <<>>
    /\ publishers = [p \in Procs |-> IdlePublisher]
    /\ sse = [u \in Users |-> NoStream]
    /\ sync_response = NoResponse

NextLog ==
    \/ \E p \in Procs, t \in Targets, b \in Bodies : PublishStamp(p, t, b)
    \/ \E p \in Procs : PublishLog(p)
    \/ \E p \in Procs : PublishSend(p)
    \/ Trim
    \/ SseSubscribe("u1")
    \/ \E u \in Users : SseGetMessage(u)
    \/ \E u \in Users : SseTimeout(u)
    \/ \E u \in Users : SseDisconnect(u)
    \/ \E since \in 0..MaxSeq : SyncEvents("u1", since)

SpecLog == InitLog /\ [][NextLog]_vars

\* The event log with a store that can become unreachable
NextSync ==
    \/ \E t \in Targets, b \in Bodies : PublishStamp("P", t, b)
    \/ PublishLog("P")
    \/ PublishSend("P")
    \/ \E u \in {"u1", "u2"}, since \in 0..MaxSeq : SyncEvents(u, since)
    \/ \E u \in {"u1", "u2"}, since \in 0..MaxSeq, has_client \in BOOLEAN :
          SyncEventsStoreDown(u, since, has_client)

SpecSync == InitLog /\ [][NextSync]_vars

\* The stream of u1 with read errors and cancellation, and process P publishing
NextSse ==
    \/ \E t \in Targets, b \in Bodies : PublishStamp("P", t, b)
    \/ PublishLog("P")
    \/ PublishSend("P")
    \/ SseSubscribe("u1")
    \/ \E u \in Users : SseGetMessage(u)
    \/ \E u \in Users : SseTimeout(u)
    \/ \E u \in Users : SseReadError(u)
    \/ \E u \in Users : SseResume(u)
    \/ \E u \in Users : SseDisconnect(u)
    \/ \E u \in Users : SseCancel(u)
    \/ \E u \in Users, exit \in SseExits : SseFinallyInterrupted(u, exit)

SpecSse == InitLog /\ [][NextSse]_vars

\* Two processes, one user who connects to either
InitTwo ==
    /\ conns = [c \in 1..MaxTwoConns |-> FreeConn]
    /\ tasks = [t \in 1..MaxTwoTasks |-> FreeTask]
    /\ active_connections = [p \in Procs |-> [u \in Users |-> None]]
    /\ pending_offline_tasks = [p \in Procs |-> [u \in Users |-> None]]
    /\ users_is_online = [u \in Users |-> FALSE]
    /\ online_written_by = [u \in Users |-> NoProc]
    /\ presence_broadcasts = [p \in Procs |-> [u \in Users |-> 0]]
    /\ outbox = [c \in 1..MaxTwoConns |-> <<>>]
    /\ now = 0
    /\ user_message_timestamps = [p \in Procs |-> <<>>]
    /\ messages = <<>>
    /\ participant_cache = [p \in Procs |-> <<>>]
    /\ inbound = [c \in 1..MaxTwoConns |-> <<>>]
    /\ budget = 0
    /\ user_reaction_timestamps = [p \in Procs |-> <<>>]
    /\ reactions = {}
    /\ lookup = NoLookup
    /\ published = <<>>
    /\ pending_lookups = [k \in 1..1 |-> NoCall]
    /\ cache_uses = [p \in Procs |-> <<>>]
    /\ user_last_activity_update_db = [p \in Procs |-> [u \in Users |-> None]]
    /\ last_seen_writes = <<>>
    /\ sequence_counter = 0
    /\ event_log = <<>>
    /\ channel = <<>>
    /\ publishers = [p \in Procs |-> IdlePublisher]
    /\ sse = [u \in Users |-> NoStream]
    /\ sync_response = NoResponse

NextTwo ==
    \/ \E c \in ConnIds, p \in Procs : ConnectBegin(c, "u1", p)
    \/ \E c \in ConnIds : ConnectRegister(c)
    \/ \E c \in ConnIds : ConnectOnline(c)
    \/ \E c \in ConnIds : ConnectBroadcast(c)
    \/ \E c \in ConnIds : Disconnect(c)
    \/ \E t \in TaskIds : TaskStart(t)
    \/ \E t \in TaskIds : TaskWake(t)
    \/ \E t \in TaskIds : TaskUpdate(t)
    \/ \E t \in TaskIds : TaskBroadcast(t)
    \/ \E t \in TaskIds : TaskCancelled(t)

SpecTwo == InitTwo /\ [][NextTwo]_vars

\* One process, one user, connection setups that may fail
InitSetup ==
    /\ conns = [c \in 1..MaxSetupConns |-> FreeConn]
    /\ tasks = [t \in 1..MaxSetupTasks |-> FreeTask]
    /\ active_connections = [p \in Procs |-> [u \in Users |-> None]]
    /\ pending_offline_tasks = [p \in Procs |-> [u \in Users |-> None]]
    /\ users_is_online = [u \in Users |-> FALSE]
    /\ online_written_by = [u \in Users |-> NoProc]
    /\ presence_broadcasts = [p \in Procs |-> [u \in Users |-> 0]]
    /\ outbox = [c \in 1..MaxSetupConns |-> <<>>]
    /\ now = 0
    /\ user_message_timestamps = [p \in Procs |-> <<>>]
    /\ messages = <<>>
    /\ participant_cache = [p \in Procs |-> <<>>]
    /\ inbound = [c \in 1..MaxSetupConns |-> <<>>]
    /\ budget = 0
    /\ user_reaction_timestamps = [p \in Procs |-> <<>>]
    /\ reactions = {}
    /\ lookup = NoLookup
    /\ published = <<>>
    /\ pending_lookups = [k \in 1..1 |-> NoCall]
    /\ cache_uses = [p \in Procs |-> <<>>]
    /\ user_last_activity_update_db = [p \in Procs |-> [u \in Users |-> None]]
    /\ last_seen_writes = <<>>
    /\ sequence_counter = 0
    /\ event_log = <<>>
    /\ channel = <<>>
    /\ publishers = [p \in Procs |-> IdlePublisher]
    /\ sse = [u \in Users |-> NoStream]
    /\ sync_response = NoResponse

NextSetup ==
    \/ \E c \in ConnIds : ConnectBegin(c, "u1", "P")
    \/ \E c \in ConnIds : ConnectRegister(c)
    \/ \E c \in ConnIds : ConnectOnline(c)
    \/ \E c \in ConnIds : ConnectBroadcast(c)
    \/ \E c \in ConnIds : ConnectFail(c)
    \/ \E c \in ConnIds : Disconnect(c)
    \/ \E t \in TaskIds : TaskStart(t)
    \/ \E t \in TaskIds : TaskWake(t)
    \/ \E t \in TaskIds : TaskUpdate(t)
    \/ \E t \in TaskIds : TaskBroadcast(t)
    \/ \E t \in TaskIds : TaskCancelled(t)

SpecSetup == InitSetup /\ [][NextSetup]_vars

\* Reaction scenario: u1, u2 and u3 are connected to P; at time 0 u1 has sent
\* SentBefore messages to chat c1 and toggled its reaction to the first of them
\* ReactedBefore times
ReactPlaces == << "u1", "u2", "u3" >>

ToggledRow(i) == reaction_payload("c1", 1, IF i % 2 = 1 THEN {"u1"} ELSE {})

InitReact ==
    /\ conns = [c \in 1..3 |-> [FreeConn EXCEPT !.user = ReactPlaces[c], !.proc = "P",
                                                 !.pc = "open", !.alive = TRUE, !.latest = TRUE]]
    /\ tasks = [t \in 1..1 |-> FreeTask]
    /\ active_connections = [p \in Procs |-> [u \in Users |->
            IF p = "P" THEN CHOOSE c \in 1..3 : ReactPlaces[c] = u ELSE None]]
    /\ pending_offline_tasks = [p \in Procs |-> [u \in Users |-> None]]
    /\ users_is_online = [u \in Users |-> TRUE]
    /\ online_written_by = [u \in Users |-> "P"]
    /\ presence_broadcasts = [p \in Procs |-> [u \in Users |-> 0]]
    /\ outbox = [c \in 1..3 |->
            IF c \in {1, 2}
            THEN [i \in 1..SentBefore |-> new_message_payload(SentRow(i))]
                 \o [i \in 1..ReactedBefore |-> ToggledRow(i)]
            ELSE <<>>]
    /\ now = 0
    /\ user_message_timestamps = [p \in Procs |->
            IF p = "P" THEN [u \in {"u1"} |-> [i \in 1..SentBefore |-> 0]] ELSE <<>>]
    /\ messages = [i \in 1..SentBefore |-> SentRow(i)]
    /\ participant_cache = [p \in Procs |->
            IF p = "P" THEN <<[chat_id |-> "c1", cached_time |-> 0,
                               participant_ids |-> chat_participants["c1"]]>>
            ELSE <<>>]
    /\ inbound = [c \in 1..3 |-> IF c = 1
            THEN [i \in 1..SentBefore |-> [event_type |-> "send_message", chat_id |-> "c1",
                                            client_temp_id |-> "t1"]]
                 \o [i \in 1..ReactedBefore |-> [event_type |-> "toggle_reaction",
                                                  chat_id |-> "c1", message_id |-> 1]]
            ELSE <<>>]
    /\ budget = MaxReactEvents
    /\ user_reaction_timestamps = [p \in Procs |->
            IF p = "P" THEN [u \in {"u1"} |-> [i \in 1..ReactedBefore |-> 0]] ELSE <<>>]
    /\ reactions = IF ReactedBefore % 2 = 1 THEN {<<1, "u1">>} ELSE {}
    /\ lookup = NoLookup
    /\ published = <<>>
    /\ pending_lookups = [k \in 1..1 |-> NoCall]
    /\ cache_uses = [p \in Procs |-> <<>>]
    /\ user_last_activity_update_db = [p \in Procs |-> [u \in Users |-> None]]
    /\ last_seen_writes = <<>>
    /\ sequence_counter = 0
    /\ event_log = <<>>
    /\ channel = <<>>
    /\ publishers = [p \in Procs |-> IdlePublisher]
    /\ sse = [u \in Users |-> NoStream]
    /\ sync_response = NoResponse

NextReact ==
    \/ \E c \in ConnIds, id \in {1, SentBefore + MaxReactEvents}, ch \in Chats :
            ReactBegin(c, id, ch)
    \/ \E c \in ConnIds : SendBegin(c, "c1", "t1")
    \/ \E c \in ConnIds : SendInsert(c)
    \/ \E c \in ConnIds : SendFinish(c)
    \/ send_message_http("u2", "P", "c1", "t2")
    \/ \E c \in ConnIds : ReactFetch(c)
    \/ \E c \in ConnIds : ReactUpdate(c)
    \/ \E c \in ConnIds : ReactFinish(c)
    \/ \E c \in ConnIds : UnknownEvent(c)
    \/ Tick

SpecReact == InitReact /\ [][NextReact]_vars

\* Cache scenario: no websocket is connected; process P has looked up the first
\* `filled` chats of OtherChats at time 0, in their order
LookupChats == {"c1", "c2", OtherChats[1], OtherChats[2]}

InitCache ==
    \E filled \in {0, CACHE_MAX_SIZE - 1, CACHE_MAX_SIZE} :
        /\ conns = [c \in 1..1 |-> FreeConn]
        /\ tasks = [t \in 1..1 |-> FreeTask]
        /\ active_connections = [p \in Procs |-> [u \in Users |-> None]]
        /\ pending_offline_tasks = [p \in Procs |-> [u \in Users |-> None]]
        /\ users_is_online = [u \in Users |-> FALSE]
        /\ online_written_by = [u \in Users |-> NoProc]
        /\ presence_broadcasts = [p \in Procs |-> [u \in Users |-> 0]]
        /\ outbox = [c \in 1..1 |-> <<>>]
        /\ now = 0
        /\ user_message_timestamps = [p \in Procs |-> <<>>]
        /\ messages = <<>>
        /\ participant_cache = [p \in Procs |->
                IF p = "P"
                THEN [k \in 1..filled |-> [chat_id |-> OtherChats[k], cached_time |-> 0,
                                           participant_ids |-> chat_participants[OtherChats[k]]]]
                ELSE <<>>]
        /\ inbound = [c \in 1..1 |-> <<>>]
        /\ budget = MaxLookups
        /\ user_reaction_timestamps = [p \in Procs |-> <<>>]
        /\ reactions = {}
        /\ lookup = NoLookup
        /\ published = <<>>
        /\ pending_lookups = [k \in 1..MaxCalls |-> NoCall]
        /\ cache_uses = [p \in Procs |-> <<>>]
        /\ user_last_activity_update_db = [p \in Procs |-> [u \in Users |-> None]]
        /\ last_seen_writes = <<>>
        /\ sequence_counter = 0
        /\ event_log = <<>>
        /\ channel = <<>>
        /\ publishers = [p \in Procs |-> IdlePublisher]
        /\ sse = [u \in Users |-> NoStream]
        /\ sync_response = NoResponse

NextCache ==
    \/ \E ch \in LookupChats : GetParticipants("P", ch)
    \/ \E ch \in LookupChats : GetParticipantsFail("P", ch)
    \/ TickCache

SpecCache == InitCache /\ [][NextCache]_vars

\* The cache scenario with calls that run concurrently: a call that misses is
\* suspended at its select while other calls start and finish
NextLru ==
    \/ \E k \in DOMAIN pending_lookups, ch \in LookupChats : LookupBegin(k, "P", ch)
    \/ \E k \in DOMAIN pending_lookups : LookupEnd(k)
    \/ TickCache

SpecLru == InitCache /\ [][NextLru]_vars

\* Two-device scenario: u1 is connected to P; u2 is connected to P twice, the
\* later connection (3) being the registered one; message 1 of chat c1 is stored
ClosePlaces == << "u1", "u2", "u2" >>

InitClose ==
    /\ conns = [c \in 1..3 |-> [FreeConn EXCEPT !.user = ClosePlaces[c], !.proc = "P",
                                                 !.pc = "open", !.alive = TRUE,
                                                 !.latest = (c # 2)]]
    /\ tasks = [t \in 1..2 |-> FreeTask]
    /\ active_connections = [p \in Procs |-> [u \in Users |->
            IF p = "P" /\ u = "u1" THEN 1 ELSE IF p = "P" /\ u = "u2" THEN 3 ELSE None]]
    /\ pending_offline_tasks = [p \in Procs |-> [u \in Users |-> None]]
    /\ users_is_online = [u \in Users |-> u \in {"u1", "u2"}]
    /\ online_written_by = [u \in Users |-> IF u \in {"u1", "u2"} THEN "P" ELSE NoProc]
    /\ presence_broadcasts = [p \in Procs |-> [u \in Users |-> 0]]
    /\ outbox = [c \in 1..3 |-> <<>>]
    /\ now = 0
    /\ user_message_timestamps = [p \in Procs |-> <<>>]
    /\ messages = << message_row(1, "c1", "u1", "t1", 0, 0, "P") >>
    /\ participant_cache = [p \in Procs |-> <<>>]
    /\ inbound = [c \in 1..3 |-> <<>>]
    /\ budget = MaxCloseEvents
    /\ user_reaction_timestamps = [p \in Procs |-> <<>>]
    /\ reactions = {}
    /\ lookup = NoLookup
    /\ published = <<>>
    /\ pending_lookups = [k \in 1..1 |-> NoCall]
    /\ cache_uses = [p \in Procs |-> <<>>]
    /\ user_last_activity_update_db = [p \in Procs |-> [u \in Users |-> None]]
    /\ last_seen_writes = <<>>
    /\ sequence_counter = 0
    /\ event_log = <<>>
    /\ channel = <<>>
    /\ publishers = [p \in Procs |-> IdlePublisher]
    /\ sse = [u \in Users |-> NoStream]
    /\ sync_response = NoResponse

NextClose ==
    \/ \E c \in ConnIds : ReactBegin(c, 1, "c1")
    \/ \E c \in ConnIds : ReactFetch(c)
    \/ \E c \in ConnIds : ReactUpdate(c)
    \/ \E c \in ConnIds : ReactFinish(c)
    \/ \E c \in ConnIds : Disconnect(c)
    \/ \E c \in ConnIds : ChangeChatMode(c, "c1")

SpecClose == InitClose /\ [][NextClose]_vars

\* The two-device scenario with HEARTBEAT frames only
NextSeen ==
    \/ \E c \in ConnIds : Heartbeat(c)
    \/ \E c \in ConnIds : HeartbeatWritten(c)
    \/ Tick

SpecSeen == InitClose /\ [][NextSeen]_vars

\* Join scenario: u2 (chat partner of u1) and u3 (no partner) are connected to P;
\* u1, not yet connected and never marked online, connects and disconnects
InitJoin ==
    /\ conns = [c \in 1..MaxConns |->
                    IF c = 1 THEN [FreeConn EXCEPT !.user = "u2", !.pc = "open", !.alive = TRUE,
                                                   !.latest = TRUE]
                    ELSE IF c = 2 THEN [FreeConn EXCEPT !.user = "u3", !.pc = "open",
                                                        !.alive = TRUE, !.latest = TRUE]
                    ELSE FreeConn]
    /\ tasks = [t \in 1..MaxTasks |-> FreeTask]
    /\ active_connections = [p \in Procs |-> [u \in Users |->
            IF p = "P" /\ u = "u2" THEN 1 ELSE IF p = "P" /\ u = "u3" THEN 2 ELSE None]]
    /\ pending_offline_tasks = [p \in Procs |-> [u \in Users |-> None]]
    /\ users_is_online = [u \in Users |-> u \in {"u2", "u3"}]
    /\ online_written_by = [u \in Users |-> IF u \in {"u2", "u3"} THEN "P" ELSE NoProc]
    /\ presence_broadcasts = [p \in Procs |-> [u \in Users |-> 0]]
    /\ outbox = [c \in 1..MaxConns |-> <<>>]
    /\ now = 0
    /\ user_message_timestamps = [p \in Procs |-> <<>>]
    /\ messages = <<>>
    /\ participant_cache = [p \in Procs |-> <<>>]
    /\ inbound = [c \in 1..MaxConns |-> <<>>]
    /\ budget = 0
    /\ user_reaction_timestamps = [p \in Procs |-> <<>>]
    /\ reactions = {}
    /\ lookup = NoLookup
    /\ published = <<>>
    /\ pending_lookups = [k \in 1..1 |-> NoCall]
    /\ cache_uses = [p \in Procs |-> <<>>]
    /\ user_last_activity_update_db = [p \in Procs |-> [u \in Users |-> None]]
    /\ last_seen_writes = <<>>
    /\ sequence_counter = 0
    /\ event_log = <<>>
    /\ channel = <<>>
    /\ publishers = [p \in Procs |-> IdlePublisher]
    /\ sse = [u \in Users |-> NoStream]
    /\ sync_response = NoResponse

SpecJoin == InitJoin /\ [][Next]_vars

---------------------------------------------------------------------------
\* C1: a grace timer during whose sleep the user connected again never writes
\* is_online=false and never broadcasts the offline presence update
C1_NoOfflineAfterReconnect ==
    \A t \in TaskIds : tasks[t].absorbed => ~tasks[t].wrote /\ ~tasks[t].broadcast

\* C2: never more than one offline presence broadcast per disconnect
C2_AtMostOneOfflineBroadcast ==
    \A p \in Procs, u \in Users : presence_broadcasts[p][u] <= 1

---------------------------------------------------------------------------
\* how often x occurs in the sequence s
Count(s, x) == Cardinality({k \in 1..Len(s) : s[k] = x})

\* the handler that stored messages[i] is through with it
Handled(i) ==
    LET m == messages[i] IN
    m.via = 0 \/ ~(conns[m.via].pc = "inserted" /\ conns[m.via].req.id = m.id)

\* connection c is the live handle registered for its user on its process
Registered(c) ==
    /\ conns[c].pc # "free" /\ conns[c].alive
    /\ active_connections[conns[c].proc][conns[c].user] = c

\* C3: a stored message whose handler is through was delivered exactly once to
\* the registered live connection of every participant, on whichever process
C3_CrossProcessFanout ==
    \A i \in 1..Len(messages) : \A c \in ConnIds :
        ( /\ Handled(i) /\ Registered(c)
          /\ conns[c].user \in SeqToSet(chat_participants[messages[i].chat_id]) )
        => Count(outbox[c], new_message_payload(messages[i])) = 1

\* the same, for the connections on the process that took the message
LocalFanout ==
    \A i \in 1..Len(messages) : \A c \in ConnIds :
        ( /\ Handled(i) /\ Registered(c) /\ conns[c].proc = messages[i].proc
          /\ conns[c].user \in SeqToSet(chat_participants[messages[i].chat_id]) )
        => Count(outbox[c], new_message_payload(messages[i])) = 1

\* C4: no two stored messages of a user carry the same client_temp_id
C4_IdempotentSend ==
    \A i, j \in 1..Len(messages) :
        ( /\ messages[i].user_id = messages[j].user_id
          /\ messages[i].client_temp_id = messages[j].client_temp_id )
        => i = j

C9_MessageAck ==
    \A i \in 1..Len(messages) :
        LET m == messages[i] IN
        (m.via # 0 /\ Handled(i) /\ conns[m.via].alive)
        => \E k \in 1..Len(outbox[m.via]) :
              /\ outbox[m.via][k].event_type = "message_ack"
              /\ outbox[m.via][k].client_temp_id = m.client_temp_id
              /\ outbox[m.via][k].server_assigned_id = m.id

\* C5: the messages of a user accepted within the last MESSAGE_WINDOW_SECONDS,
\* over websocket and HTTP together, never number more than MAX_MESSAGES_PER_WINDOW
C5_RateCeiling ==
    \A u \in Users :
        Cardinality({i \in 1..Len(messages) :
            /\ messages[i].user_id = u
            /\ now - messages[i].created_at < MESSAGE_WINDOW_SECONDS}) <= MAX_MESSAGES_PER_WINDOW

\* the same ceiling for the messages taken over websocket alone
WsRateCeiling ==
    \A u \in Users :
        Cardinality({i \in 1..Len(messages) :
            /\ messages[i].user_id = u /\ messages[i].via # 0
            /\ now - messages[i].created_at < MESSAGE_WINDOW_SECONDS}) <= MAX_MESSAGES_PER_WINDOW

---------------------------------------------------------------------------
\* the envelopes that have been given a sequence: in a publish call or published
Stamped ==
    {publishers[p].envelope : p \in {q \in Procs : publishers[q].pc # "idle"}}
        \cup {channel[i] : i \in 1..Len(channel)}

\* C6: no sequence value is assigned twice, and every publish call is given a
\* sequence greater than all those assigned before it, also while another
\* publish call is under way
C6_SequenceMonotonicity ==
    /\ [](/\ \A i, j \in 1..Len(channel) : channel[i].sequence = channel[j].sequence => i = j
          /\ \A p \in Procs : publishers[p].pc # "idle" =>
                /\ \A i \in 1..Len(channel) : channel[i].sequence # publishers[p].envelope.sequence
                /\ \A q \in Procs \ {p} : publishers[q].pc # "idle" =>
                      publishers[q].envelope.sequence # publishers[p].envelope.sequence)
    /\ [][\A p \in Procs :
            (publishers[p].pc = "idle" /\ publishers'[p].pc = "stamped")
            => \A e \in Stamped : publishers'[p].envelope.sequence > e.sequence]_vars

\* both processes are in a publish call after an earlier envelope went out
C6_Witness ==
    /\ publishers["P"].pc = "stamped" /\ publishers["Q"].pc = "stamped"
    /\ Len(channel) >= 1

\* the retained entries above since that are addressed to u, each payload with
\* its sequence, in ascending order
Replay(zset, u, since) ==
    LET hits == SelectSeq(zset, LAMBDA e : e.score > since /\ u \in e.member.target_user_ids)
    IN [i \in 1..Len(hits) |-> [event_type |-> hits[i].member.payload.event_type,
                                body |-> hits[i].member.payload.body,
                                sequence |-> hits[i].score]]

\* C7: for every user and every since, sync returns exactly the retained entries
\* above since addressed to the user, in ascending order, each with its sequence
C7_ReplayCompleteness ==
    \A u \in Users : \A since \in 0..MaxSeq :
        sync_events(event_log, u, since) = Replay(event_log, u, since)

\* the payload events of an SSE stream, without sse_connected and the pings
PayloadEvents(out) == SelectSeq(out, LAMBDA e : e.event_type \notin {"sse_connected", "ping"})

\* the entries of a sequence of envelopes or log members addressed to u
AddressedTo(envelopes, u) == SelectSeq(envelopes, LAMBDA e : u \in e.target_user_ids)

\* C10: the payload events of u's SSE stream are exactly the payloads of the
\* envelopes addressed to u among those the stream has taken from the channel;
\* the events the sync loop keeps for u all come from entries addressed to u,
\* and are the same when the entries not addressed to u are left out of the log
C10_AddressingConfidentiality ==
    /\ \A u \in Users :
          LET taken == SubSeq(channel, sse[u].first + 1, sse[u].pos)
              mine == AddressedTo(taken, u)
          IN PayloadEvents(sse[u].out) = [i \in 1..Len(mine) |-> mine[i].payload]
    /\ \A u \in Users :
          LET kept == authorized_events(event_log, u)
              mine == SelectSeq(event_log, LAMBDA e : u \in e.member.target_user_ids)
          IN /\ \A k \in 1..Len(kept) : \E i \in 1..Len(event_log) :
                    /\ event_log[i].score = kept[k].sequence
                    /\ u \in event_log[i].member.target_user_ids
             /\ kept = authorized_events(mine, u)
    /\ \A k \in 1..Len(sync_response.events) : \E e \in Stamped :
          /\ e.sequence = sync_response.events[k].sequence
          /\ sync_response.user \in e.target_user_ids

\* u1's stream has passed an envelope addressed to u1 and one not addressed to u1,
\* and the log holds an entry of each kind
C10_Witness ==
    /\ \E i, j \in (sse["u1"].first + 1)..sse["u1"].pos :
          "u1" \in channel[i].target_user_ids /\ "u1" \notin channel[j].target_user_ids
    /\ \E i, j \in 1..Len(event_log) :
          /\ "u1" \in event_log[i].member.target_user_ids
          /\ "u1" \notin event_log[j].member.target_user_ids

---------------------------------------------------------------------------
\* C11: a grace timer of process P during whose sleep the user connected to
\* another process never writes is_online=false and never broadcasts the
\* offline presence update
C11_NoOfflineAfterReconnectElsewhere ==
    \A t \in TaskIds : tasks[t].elsewhere => ~tasks[t].wrote /\ ~tasks[t].broadcast

\* C13: the connection of a user that was registered last on a process stays
\* the user's registry entry while it is open: the close of an older connection
\* of the user does not take the entry away
C13_NoLostRegistration ==
    \A c \in ConnIds :
        (conns[c].pc = "open" /\ conns[c].alive /\ conns[c].latest)
        => active_connections[conns[c].proc][conns[c].user] = c

\* a grace timer of user u is under way on process p
GraceRunning(p, u) ==
    \E t \in TaskIds : /\ tasks[t].user = u /\ tasks[t].proc = p
                       /\ tasks[t].pc \in {"created", "sleeping", "updating", "broadcasting"}

\* a connect of user u is under way on process p and has not registered yet
SetupRunning(p, u) ==
    \E c \in ConnIds : conns[c].user = u /\ conns[c].proc = p /\ conns[c].pc = "accepting"

\* C12: outside a running grace period (and a reconnect that is ending one), a
\* user whose record says is_online=true has a registered connection, not yet
\* closed, on the process that wrote the record
C12_PresenceInvariant ==
    \A u \in Users :
        LET p == online_written_by[u] IN
        (users_is_online[u] /\ p # NoProc /\ ~GraceRunning(p, u) /\ ~SetupRunning(p, u))
        => /\ active_connections[p][u] # None
           /\ conns[active_connections[p][u]].pc # "closed"

\* C14: a user id is in a process's registry only while the connection stored
\* there has not been closed
C14_ConnectionLifecycle ==
    \A p \in Procs, u \in Users :
        active_connections[p][u] # None => conns[active_connections[p][u]].pc # "closed"

ConversationScoped == {"send_message", "toggle_reaction", "typing"}

\* the frames connection c took up that name a chat its user is not a participant of
Foreign(c) ==
    {k \in 1..Len(inbound[c]) :
        /\ inbound[c][k].event_type \in ConversationScoped
        /\ conns[c].user \notin SeqToSet(chat_participants[inbound[c][k].chat_id])}

\* the error events connection c was sent
Errors(c) == {k \in 1..Len(outbox[c]) : outbox[c][k].event_type = "error"}

\* C15: a connection that is through with its frames was sent an error event for
\* every conversation-scoped frame naming a chat its user is not a participant of;
\* no message or reaction of a non-participant is stored, no new_message or
\* typing_indicator of a non-participant is sent to anyone, and a user with no
\* participant send_message has no timestamp in the rate-limit window
C15_PermissionErrors ==
    /\ \A c \in ConnIds :
          (conns[c].pc = "open" /\ conns[c].alive)
          => Cardinality(Errors(c)) >= Cardinality(Foreign(c))
    /\ \A i \in 1..Len(messages) :
          messages[i].user_id \in SeqToSet(chat_participants[messages[i].chat_id])
    /\ \A e \in reactions : e[2] \in SeqToSet(chat_participants[messages[e[1]].chat_id])
    /\ \A d \in DOMAIN outbox : \A k \in 1..Len(outbox[d]) :
          LET ev == outbox[d][k] IN
          /\ ev.event_type = "typing_indicator"
                => ev.user_id \in SeqToSet(chat_participants[ev.chat_id])
          /\ ev.event_type = "new_message"
                => ev.message.user_id \in SeqToSet(chat_participants[ev.chat_id])
    /\ \A p \in Procs : \A u \in DOMAIN user_message_timestamps[p] :
          (\A c \in ConnIds : conns[c].user = u /\ conns[c].proc = p
                => \A k \in 1..Len(inbound[c]) : k \in Foreign(c))
          => user_message_timestamps[p][u] = <<>>


ThrottleDetails == {"You are sending messages too quickly. Please wait a moment.",
                    "You are reacting too quickly. Please wait a moment."}
PermissionDetails == {"You are not a participant of this chat.",
                      "You cannot react in a chat you are not part of."}

\* the timestamps of dict[p][u] that lie in the window at the time now
InWindow(dict, p, u, window) ==
    IF u \in DOMAIN dict[p]
    THEN Cardinality({k \in 1..Len(dict[p][u]) : now - dict[p][u][k] < window})
    ELSE 0

\* this step connection c takes up a frame that the rate limiter rejects
Throttled(c) ==
    /\ Len(inbound'[c]) = Len(inbound[c]) + 1
    /\ LET f == inbound'[c][Len(inbound'[c])]
           u == conns[c].user
           p == conns[c].proc
       IN \/ /\ f.event_type = "send_message"
             /\ InWindow(user_message_timestamps, p, u, MESSAGE_WINDOW_SECONDS)
                    >= MAX_MESSAGES_PER_WINDOW
          \/ /\ f.event_type = "toggle_reaction"
             /\ InWindow(user_reaction_timestamps, p, u, REACTION_WINDOW_SECONDS)
                    >= MAX_REACTIONS_PER_WINDOW

TakesUnknown(c) ==
    /\ Len(inbound'[c]) = Len(inbound[c]) + 1
    /\ inbound'[c][Len(inbound'[c])].event_type = "unknown"

SendFrames(c) == {k \in 1..Len(inbound[c]) : inbound[c][k].event_type = "send_message"}

\* the stored messages that connection c took
RowsVia(c) == {i \in 1..Len(messages) : messages[i].via = c}

\* C18: a connection that is through with its send_message frames has, for each
\* frame, an error event or a stored message but never both; and every stored
\* message whose handler is through was sent to the registered live connection of
\* every participant on the process that took it
C18_StoreErrorsFailClosed ==
    /\ \A c \in ConnIds :
          conns[c].pc = "open"
          => Cardinality(Errors(c)) + Cardinality(RowsVia(c)) <= Cardinality(SendFrames(c))
    /\ \A i \in 1..Len(messages) : \A c \in ConnIds :
          ( /\ Handled(i) /\ Registered(c) /\ conns[c].proc = messages[i].proc
            /\ conns[c].user \in SeqToSet(chat_participants[messages[i].chat_id]) )
          => new_message_payload(messages[i]) \in SeqToSet(outbox[c])


\* on process p a target of user_ids has a registered handle that is dead
DeadTarget(p, user_ids) ==
    \E u \in user_ids : /\ active_connections[p][u] # None
                        /\ ~conns[active_connections[p][u]].alive

\* this step every target of user_ids with a live registered handle on p is sent
\* payload, and no connection is sent anything else
Isolated(p, payload, user_ids) ==
    /\ \A u \in user_ids :
          LET d == active_connections[p][u] IN
          (d # None /\ conns[d].alive) => outbox'[d] = Append(outbox[d], payload)
    /\ \A d \in ConnIds : outbox'[d] \in {outbox[d], Append(outbox[d], payload)}

\* C19: when a handler broadcasts a stored message or a typing indicator while a
\* target's registered handle is dead, every target with a live registered handle
\* on the process is sent the payload, nothing else is sent to anyone (the
\* handler's own socket gets no error event), and the handler is back at the top
\* of its receive loop
C19_DeliveryFailureIsolation ==
    [][\A a \in ConnIds :
          LET p == conns[a].proc
              r == conns[a].req
          IN /\ ( /\ conns[a].pc = "inserted" /\ conns'[a].pc = "open" /\ r.ok
                  /\ conns[a].user \in DOMAIN user_message_timestamps[p]
                  /\ DeadTarget(p, SeqToSet(chat_participants[r.chat_id])) )
                => Isolated(p, new_message_payload(messages[r.id]),
                            SeqToSet(chat_participants[r.chat_id]))
             /\ ( /\ Len(inbound'[a]) = Len(inbound[a]) + 1
                  /\ inbound'[a][Len(inbound'[a])].event_type = "typing"
                  /\ DeadTarget(p, SeqToSet(chat_participants[
                                      inbound'[a][Len(inbound'[a])].chat_id]) \ {conns[a].user}) )
                => LET f == inbound'[a][Len(inbound'[a])] IN
                   /\ Isolated(p, typing_payload(f.chat_id, conns[a].user, f.is_typing),
                               SeqToSet(chat_participants[f.chat_id]) \ {conns[a].user})
                   /\ conns'[a].pc = "open"]_vars

\* a stored message was broadcast while the registered handle of one participant
\* was dead: that handle did not get it, the live handle of another participant did
C19_Witness ==
    \E i \in 1..Len(messages) : \E d, e \in ConnIds :
        /\ Handled(i) /\ messages[i].via # 0
        /\ conns[d].proc = messages[i].proc /\ conns[e].proc = messages[i].proc
        /\ active_connections[conns[d].proc][conns[d].user] = d /\ ~conns[d].alive
        /\ conns[d].user \in SeqToSet(chat_participants[messages[i].chat_id])
        /\ new_message_payload(messages[i]) \notin SeqToSet(outbox[d])
        /\ Registered(e) /\ e # d
        /\ new_message_payload(messages[i]) \in SeqToSet(outbox[e])


\* the events that this step appends to the outbox of connection d
Gained(d) == {outbox'[d][k] : k \in (Len(outbox[d]) + 1)..Len(outbox'[d])}

\* C20: every new_message event sent carries a row of the messages table; a step
\* that sends a message_reaction_update is the step of a handler whose update
\* returned success and sends the reactions that update wrote; and the step of a
\* handler whose insert or update did not succeed sends no new_message and no
\* message_reaction_update to anyone
C20_PersistBeforeBroadcast ==
    /\ [](\A d \in DOMAIN outbox : \A k \in 1..Len(outbox[d]) :
            outbox[d][k].event_type = "new_message"
            => outbox[d][k].message \in SeqToSet(messages))
    /\ [][\A d \in ConnIds : \A ev \in Gained(d) :
            /\ ev.event_type = "new_message" => ev.message \in SeqToSet(messages')
            /\ ev.event_type = "message_reaction_update"
               => \E a \in ConnIds :
                     /\ conns[a].pc = "updated" /\ conns'[a].pc = "open" /\ conns[a].req.ok
                     /\ ev = reaction_payload(conns[a].req.chat_id, conns[a].req.id,
                                              conns[a].req.reactions)]_vars
    /\ [][\A a \in ConnIds :
            ( /\ conns[a].pc \in {"inserted", "updated"} /\ conns'[a].pc = "open"
              /\ ~conns[a].req.ok )
            => \A d \in ConnIds : \A ev \in Gained(d) :
                  ev.event_type \notin {"new_message", "message_reaction_update"}]_vars

\* an update that returned no data was answered with an error event, and an update
\* that succeeded was broadcast with the reactions it wrote
C20_Witness ==
    /\ \E c \in ConnIds : error_payload("Failed to save your reaction.") \in SeqToSet(outbox[c])
    /\ \E d \in ConnIds : \E k \in 1..Len(outbox[d]) :
          /\ k > SentBefore + ReactedBefore
          /\ outbox[d][k].event_type = "message_reaction_update"
          /\ outbox[d][k].reactions = reactions_of(outbox[d][k].message_id)


\* C21: a call of _get_chat_participants that finds an entry of age TTL or more
\* does not serve it: the entry is gone afterwards or carries the time of the
\* call; a call that serves a cached list found an entry younger than the TTL,
\* returns its list and leaves its cached_time as it was; after any call the
\* entry of the chat, if there is one, is younger than the TTL
C21_CacheFreshness ==
    [][budget' # budget
       => LET old == participant_cache[lookup'.proc]
              new == participant_cache'[lookup'.proc]
              i == CacheIndex(old, lookup'.chat_id)
              j == CacheIndex(new, lookup'.chat_id)
          IN /\ (i # 0 /\ now - old[i].cached_time >= CACHE_TTL_SECONDS)
                => /\ ~lookup'.hit
                   /\ IF j = 0 THEN lookup'.participant_ids = <<>>
                      ELSE new[j].cached_time = now
             /\ lookup'.hit
                => /\ i # 0 /\ j # 0
                   /\ now - old[i].cached_time < CACHE_TTL_SECONDS
                   /\ lookup'.participant_ids = old[i].participant_ids
                   /\ new[j].cached_time = old[i].cached_time
             /\ j # 0 => now - new[j].cached_time < CACHE_TTL_SECONDS]_vars

\* the oldest entry of a filled cache was found expired and fetched again: it
\* carries the time of the call and the second oldest entry is now the first
C21_Witness ==
    LET cache == participant_cache["P"]
        j == CacheIndex(cache, OtherChats[1])
    IN /\ lookup.proc = "P" /\ lookup.chat_id = OtherChats[1] /\ ~lookup.hit
       /\ now >= CACHE_TTL_SECONDS
       /\ Len(cache) >= CACHE_MAX_SIZE - 1
       /\ cache[1].chat_id = OtherChats[2]
       /\ j # 0 /\ cache[j].cached_time = now


\* C22: the participant cache of a process never holds more than CACHE_MAX_SIZE
\* entries
C22_CacheCapacity ==
    \A p \in Procs : Len(participant_cache[p]) <= CACHE_MAX_SIZE


\* C23: the step in which a handler is through with a toggle_reaction whose update
\* was stored sends the message_reaction_update to the registered live connection
\* of every participant of the chat on the process, the toggling user included
C23_ReactionFanout ==
    [][\A a \in ConnIds :
          ( /\ conns[a].pc = "updated" /\ conns'[a].pc = "open" /\ conns[a].req.ok )
          => \A c \in ConnIds :
                ( /\ Registered(c) /\ conns[c].proc = conns[a].proc
                  /\ conns[c].user \in SeqToSet(chat_participants[conns[a].req.chat_id]) )
                => outbox'[c] = Append(outbox[c],
                                       reaction_payload(conns[a].req.chat_id, conns[a].req.id,
                                                        conns[a].req.reactions))]_vars


\* C24: a connection that is through with its frames was sent no unknown-event
\* error for a change_chat_mode frame of a participant, and the registered live
\* connection of every participant on the process holds a chat_mode_changed event
\* of that chat
C24_ChatModeRecognized ==
    \A a \in ConnIds : \A k \in 1..Len(inbound[a]) :
        LET f == inbound[a][k] IN
        ( /\ conns[a].pc = "open" /\ conns[a].alive
          /\ f.event_type = "change_chat_mode"
          /\ conns[a].user \in SeqToSet(chat_participants[f.chat_id]) )
        => /\ error_payload("Unknown event_type: change_chat_mode") \notin SeqToSet(outbox[a])
           /\ \A c \in ConnIds :
                 ( /\ Registered(c) /\ conns[c].proc = conns[a].proc
                   /\ conns[c].user \in SeqToSet(chat_participants[f.chat_id]) )
                 => \E j \in 1..Len(outbox[c]) :
                       /\ outbox[c][j].event_type = "chat_mode_changed"
                       /\ outbox[c][j].chat_id = f.chat_id


\* C25: any two updates of users.last_seen applied for one user carry times at
\* least THROTTLE_LAST_SEEN_UPDATE_SECONDS apart
C25_LastSeenThrottle ==
    \A i, j \in 1..Len(last_seen_writes) :
        (i < j /\ last_seen_writes[i].user = last_seen_writes[j].user)
        => last_seen_writes[j].at - last_seen_writes[i].at >= THROTTLE_LAST_SEEN_UPDATE_SECONDS


\* the distinct users who share a chat with u
Partners(u) ==
    {v \in Users \ {u} : \E ch \in Chats : {u, v} \subseteq SeqToSet(chat_participants[ch])}

PublishedAt(id) == CHOOSE k \in 1..Len(published) : published[k] = id

\* C27: a recipient that stays connected to one process gets any two events
\* addressed to it in the order in which they were published, also when two
\* concurrently running handlers broadcast them: on every websocket, the
\* new_message events appear in the order of their broadcast_chat_message calls.
C27_PerRecipientOrdering ==
    \A c \in ConnIds : \A i, j \in 1..Len(outbox[c]) :
        ( /\ i < j
          /\ outbox[c][i].event_type = "new_message"
          /\ outbox[c][j].event_type = "new_message" )
        => PublishedAt(outbox[c][i].message.id) < PublishedAt(outbox[c][j].message.id)

\* C28: when the transport of a user's registered connection closes, in the
\* resulting state the user is not in the registry of the process, a grace timer
\* that has not finished is recorded for the user, and users.is_online is as it was.
C28_DisconnectEffect ==
    [][\A c \in ConnIds :
          ( /\ Registered(c) /\ conns[c].pc = "open" /\ conns'[c].pc = "closed" )
          => LET u == conns[c].user
                 p == conns[c].proc
                 t == pending_offline_tasks'[p][u]
             IN /\ active_connections'[p][u] = None
                /\ t # None
                /\ tasks'[t].pc \notin {"done", "cancelled"}
                /\ users_is_online'[u] = users_is_online[u]]_vars

\* the rate-limit window dict holds for user u on process p
Window(dict, p, u) == IF u \in DOMAIN dict[p] THEN dict[p][u] ELSE <<>>

\* the step answers connection c with an error event
Rejects(c) ==
    /\ Len(outbox'[c]) = Len(outbox[c]) + 1
    /\ outbox'[c][Len(outbox'[c])].event_type = "error"

\* C29: a send_message or toggle_reaction that is rejected leaves the user's
\* rate-limit windows without a new timestamp (only pruning may change them), and
\* an accepted one adds exactly one timestamp: a step that answers a connection
\* with an error event adds nothing to its user's windows, and a step that ends a
\* send_message without an error adds one timestamp to the message window.
C29_TimestampOnlyOnAdmission ==
    [][\A c \in ConnIds :
          LET u == conns[c].user
              p == conns[c].proc
              before == Window(user_message_timestamps, p, u)
              after == Window(user_message_timestamps', p, u)
              rbefore == Window(user_reaction_timestamps, p, u)
              rafter == Window(user_reaction_timestamps', p, u)
          IN /\ Rejects(c)
                => /\ Len(after) <= Len(before)
                   /\ SeqToSet(after) \subseteq SeqToSet(before)
                   /\ Len(rafter) <= Len(rbefore)
                   /\ SeqToSet(rafter) \subseteq SeqToSet(rbefore)
             /\ ( /\ conns[c].pc = "inserted" /\ conns'[c].pc = "open" /\ conns[c].alive
                  /\ ~Rejects(c) )
                => after = Append(before, conns[c].req.at)]_vars

\* the step in which connection c takes up a malformed frame
TakesMalformed(c) ==
    /\ Len(inbound'[c]) = Len(inbound[c]) + 1
    /\ inbound'[c][Len(inbound'[c])].event_type = "malformed"

\* C30: a frame that is not valid JSON or whose payload fails validation yields an
\* error event on the originating connection only; no other connection receives
\* anything, the connection is not closed and the user is not unregistered.
C30_MalformedFramesLocal ==
    [][\A c \in ConnIds :
          TakesMalformed(c)
          => /\ Len(outbox'[c]) = Len(outbox[c]) + 1
             /\ outbox'[c][Len(outbox'[c])].event_type = "error"
             /\ \A d \in ConnIds \ {c} : outbox'[d] = outbox[d]
             /\ conns'[c].pc = "open" /\ conns'[c].alive
             /\ active_connections' = active_connections]_vars

\* the payloads of the envelopes addressed to u that the stream of u took from the
\* channel after its last read error
TakenSinceError(u) ==
    LET mine == AddressedTo(SubSeq(channel, sse[u].err_at + 1, sse[u].pos), u)
    IN [i \in 1..Len(mine) |-> mine[i].payload]

\* C31: a read error on the broadcast channel never ends a subscriber loop; the
\* loop backs off and reads on, so an envelope published after the error and
\* addressed to the user is still delivered: a generator that ended was
\* disconnected or cancelled, and the events a generator yielded end with the
\* payloads of the addressed envelopes it took after its last error.
C31_SubscriberSurvivesReadErrors ==
    \A u \in Users :
        /\ sse[u].pc = "closed" => sse[u].exit \in {"disconnected", "cancelled"}
        /\ sse[u].errors > 0
           => LET evs == PayloadEvents(sse[u].out)
                  late == TakenSinceError(u)
              IN /\ Len(late) <= Len(evs)
                 /\ SubSeq(evs, Len(evs) - Len(late) + 1, Len(evs)) = late

\* u1's generator met a read error, reads again, and has yielded an envelope
\* published after the error
C31_Witness ==
    /\ sse["u1"].errors > 0 /\ sse["u1"].pc = "subscribed"
    /\ TakenSinceError("u1") # <<>>

\* the place of the last use of chat_id among the uses of p's cache, 0 when it was
\* not used since the scenario began
LastUse(p, chat_id) ==
    IF \E k \in 1..Len(cache_uses[p]) : cache_uses[p][k] = chat_id
    THEN CHOOSE k \in 1..Len(cache_uses[p]) :
            /\ cache_uses[p][k] = chat_id
            /\ \A j \in (k + 1)..Len(cache_uses[p]) : cache_uses[p][j] # chat_id
    ELSE 0

\* C32: the entry evicted from a full cache is the least recently used one, a hit
\* and an insertion both counting as a use; an entry used more recently than
\* another is never evicted before it. Eviction takes the first entry of the
\* OrderedDict, so: no entry stands before an entry that was used less recently.
C32_LruVictim ==
    \A p \in Procs : \A i, j \in 1..Len(participant_cache[p]) :
        i < j => LastUse(p, participant_cache[p][i].chat_id)
                     <= LastUse(p, participant_cache[p][j].chat_id)

\* user u has a registered open connection on process p
ConnectedOn(p, u) ==
    \E c \in ConnIds : Registered(c) /\ conns[c].user = u /\ conns[c].proc = p

\* C33: on one process no is_online=false write and no offline presence update is
\* performed for a user who at that moment has a registered open connection on
\* that process: a grace timer that passes its check and sends the write, and a
\* timer that broadcasts, finds its user without such a connection.
C33_NoOfflineWhileConnected ==
    [][\A t \in TaskIds :
          ( \/ tasks[t].pc = "sleeping" /\ tasks'[t].pc = "updating"
            \/ ~tasks[t].broadcast /\ tasks'[t].broadcast )
          => ~ConnectedOn(tasks[t].proc, tasks[t].user)]_vars

\* grace timer t is live: created and neither finished nor cancelled
Live(t) ==
    /\ tasks[t].pc \in {"created", "sleeping", "updating", "broadcasting"}
    /\ ~tasks[t].cancel_requested

\* C34: the cleanup of a finished or cancelled grace timer removes only its own
\* entry of pending_offline_tasks, never the entry of a later timer of the same
\* user: a step that ends a timer leaves every other timer's entry in place, and
\* every live timer is the one pending_offline_tasks records for its user.
C34_TimerBookkeeping ==
    /\ [][\A t \in TaskIds, p \in Procs, u \in Users :
             ( /\ tasks[t].pc # tasks'[t].pc /\ tasks'[t].pc \in {"done", "cancelled"}
               /\ pending_offline_tasks[p][u] \notin {None, t} )
             => pending_offline_tasks'[p][u] = pending_offline_tasks[p][u]]_vars
    /\ [](\A t \in TaskIds :
             Live(t) => pending_offline_tasks[tasks[t].proc][tasks[t].user] = t)

\* C35: a disconnect of a user who has a live pending grace timer schedules no
\* second timer and leaves the existing one as it is; at any time at most one
\* live grace timer exists per user and process.
C35_SingleGraceTimer ==
    /\ [][\A c \in ConnIds :
             LET u == conns[c].user
                 p == conns[c].proc
                 e == pending_offline_tasks[p][u]
             IN ( /\ conns[c].pc = "open" /\ conns'[c].pc = "closed"
                  /\ e # None /\ Live(e) )
                => tasks' = tasks /\ pending_offline_tasks' = pending_offline_tasks]_vars
    /\ [](\A t1, t2 \in TaskIds :
             ( /\ Live(t1) /\ Live(t2)
               /\ tasks[t1].proc = tasks[t2].proc /\ tasks[t1].user = tasks[t2].user )
             => t1 = t2)

\* the step turns connection c down
Rejected(c) == conns[c].pc = "free" /\ conns'[c].pc = "rejected"

\* C36: a connect whose token is missing, invalid, expired or names an unknown
\* user is closed with the policy-violation code and leaves no trace: nobody is
\* added to the registry, nothing is written to or broadcast about presence, no
\* pending grace timer is cancelled and none is scheduled; the connection is
\* never registered later either.
C36_UnauthenticatedNoTrace ==
    /\ [][\A c \in ConnIds :
             Rejected(c) => /\ UNCHANGED <<lifecycleVars, outbox>>
                            /\ \A d \in ConnIds \ {c} : conns'[d] = conns[d]]_vars
    /\ [](\A c \in ConnIds : conns[c].pc = "rejected"
             => /\ ~conns[c].alive
                /\ \A p \in Procs, u \in Users : active_connections[p][u] # c)

\* a connection was turned down while a grace timer of u1 is sleeping and recorded
C36_Witness ==
    \E c \in ConnIds, t \in TaskIds :
        /\ conns[c].pc = "rejected"
        /\ tasks[t].pc = "sleeping" /\ ~tasks[t].cancel_requested
        /\ pending_offline_tasks["P"]["u1"] = t
        /\ \A d \in ConnIds : d < c => conns[d].pc = "closed"

\* C37: when reading the event log fails because the store is unreachable or the
\* read raises, the sync operation returns an empty list instead of an error, the
\* response it gives a user who missed no events.
C37_ReplayOnStoreFailure ==
    sync_response.store = "down"
    => sync_response.status = 200 /\ sync_response.events = <<>>

\* C38: when the participant lookup raises, the call returns an empty list, the
\* cache is left without an entry for the chat, and the broadcast that needed the
\* list sends nothing; a lookup that succeeds with zero participants is cached as
\* an empty list with the time of the call.
C38_FailedLookupsNotCached ==
    [][lookup' # lookup
       => LET p == lookup'.proc
              ch == lookup'.chat_id
              j == CacheIndex(participant_cache'[p], ch)
          IN /\ lookup'.raised
                => /\ lookup'.participant_ids = <<>>
                   /\ j = 0
                   /\ outbox' = outbox
             /\ ( /\ ~lookup'.raised /\ ~lookup'.hit /\ chat_participants[ch] = <<>> )
                => /\ lookup'.participant_ids = <<>>
                   /\ j # 0
                   /\ participant_cache'[p][j].participant_ids = <<>>
                   /\ participant_cache'[p][j].cached_time = now]_vars

\* a broadcast met a failing lookup for chat c1 whose entry had expired, and the
\* cache of the process holds no entry for c1
C38_Witness ==
    /\ lookup.raised /\ lookup.chat_id = "c1" /\ lookup.proc = "P"
    /\ now >= CACHE_TTL_SECONDS
    /\ CacheIndex(participant_cache["P"], "c1") = 0
    /\ \E m \in 1..Len(messages) : messages[m].chat_id = "c1" /\ messages[m].proc = "P"
    /\ \E c \in ConnIds : conns[c].proc = "P" /\ Len(inbound[c]) > 0 /\ conns[c].pc = "open"

\* C39: an event generator ends only when its client is found disconnected or its
\* task is cancelled; a generator that subscribed and ended has unsubscribed from
\* the channel and closed its pub/sub handle, and one that runs holds both; a
\* wait that brings no message yields a keep-alive ping and the generator goes on.
C39_StreamCleanup ==
    /\ [](\A u \in Users :
            /\ sse[u].pc = "closed"
               => /\ sse[u].exit \in SseExits
                  /\ ~sse[u].subscribed
                  /\ sse[u].handle = "closed"
            /\ sse[u].pc \in {"subscribed", "backoff"}
               => sse[u].subscribed /\ sse[u].handle = "open")
    /\ [][\A u \in Users :
            sse'[u].pings > sse[u].pings
            => /\ sse'[u].pc = "subscribed"
               /\ sse'[u].out = Append(sse[u].out, [event_type |-> "ping"])]_vars

====
